---- MODULE Spec2Model ----
(***************************************************************************)
(* Model of the review pipeline of the AI code review system:              *)
(*   src/src/engine/review_engine.py    ReviewEngine                       *)
(*   src/src/engine/prioritizer.py      Prioritizer                        *)
(*   src/src/learning/feedback_analyzer.py  FeedbackAnalyzer               *)
(*   src/src/learning/feedback_collector.py FeedbackCollector              *)
(*   src/src/context/historical_analyzer.py HistoricalAnalyzer             *)
(*   src/src/analyzers/pattern_matcher.py   PatternMatcher                 *)
(*                                                                         *)
(* Numbers.  Python floats are modelled by exact fixed-point integers.     *)
(* A confidence c is the integer c * ConfOne; a multiplier m is the        *)
(* integer m * 100; a score s is the integer s * ConfOne * ScoreDen.       *)
(* ConfOne is a multiple of 10000 and of every feedback total the ledger   *)
(* can hold, so that confidence * multiplier and positive / total are      *)
(* exact.  Text (paths, titles, diff lines) is modelled by strings.        *)
(***************************************************************************)
EXTENDS Integers, Sequences, FiniteSets, TLC

\* ------------------------------------------------------------------ bounds
\* largest counter value the feedback ledger holds in the model
MaxFeedback == 1
\* largest number of findings a stubbed analyzer returns from one call
MaxPerAnalyzer == 1
\* a stubbed analyzer returns findings only while the merged list stays within
MaxFindings == 2
\* longest finding list handed directly to Prioritizer.prioritize
MaxListLen == 3

\* ----------------------------------------------------------- number helpers
Range(seq) == {seq[i] : i \in DOMAIN seq}
Min(a, b) == IF a < b THEN a ELSE b
Max(a, b) == IF a > b THEN a ELSE b

RECURSIVE Gcd(_, _)
Gcd(a, b) == IF b = 0 THEN a ELSE Gcd(b, a % b)

RECURSIVE LcmUpTo(_)
LcmUpTo(n) == IF n <= 1 THEN 1 ELSE (LcmUpTo(n - 1) * n) \div Gcd(LcmUpTo(n - 1), n)

\* the integer that stands for confidence 1.0
ConfOne == 10000 * LcmUpTo(MaxFeedback)
\* the integer that stands for confidence n / 100
Pct(n) == (n * ConfOne) \div 100
\* scores carry the extra denominator 2 * 5 of the boosts 3/2 and 6/5
ScoreDen == 10

\* ------------------------------------------------------------- text helpers
UpperToLower ==
  ( "A" :> "a" @@ "B" :> "b" @@ "C" :> "c" @@ "D" :> "d" @@ "E" :> "e" @@
    "F" :> "f" @@ "G" :> "g" @@ "H" :> "h" @@ "I" :> "i" @@ "J" :> "j" @@
    "K" :> "k" @@ "L" :> "l" @@ "M" :> "m" @@ "N" :> "n" @@ "O" :> "o" @@
    "P" :> "p" @@ "Q" :> "q" @@ "R" :> "r" @@ "S" :> "s" @@ "T" :> "t" @@
    "U" :> "u" @@ "V" :> "v" @@ "W" :> "w" @@ "X" :> "x" @@ "Y" :> "y" @@
    "Z" :> "z" )

CharAt(s, i) == SubSeq(s, i, i)

LowerChar(c) == IF c \in DOMAIN UpperToLower THEN UpperToLower[c] ELSE c

\* str.lower()
RECURSIVE Lower(_)
Lower(s) ==
  IF Len(s) = 0 THEN "" ELSE LowerChar(CharAt(s, 1)) \o Lower(SubSeq(s, 2, Len(s)))

\* s[:n]
Prefix(s, n) == SubSeq(s, 1, Min(n, Len(s)))

\* s.startswith(p)
StartsWith(s, p) == Len(p) <= Len(s) /\ SubSeq(s, 1, Len(p)) = p

\* k in s
Contains(s, k) ==
  \E i \in 1..(Len(s) - Len(k) + 1) : SubSeq(s, i, i + Len(k) - 1) = k

\* ---------------------------------------------------------------- findings
Categories ==
  {"security", "bug", "architecture", "performance", "business_logic",
   "test", "code_quality", "style"}

Priorities == {"critical", "high", "medium", "low", "info"}

NoId == <<>>

\* the confidence_level an AnalysisResult has from its construction on
AsBuilt == "as_built"

\* an AnalysisResult as an analyzer builds it
Finding(cat, prio, conf, path, line, title, descr) ==
  [category |-> cat, priority |-> prio, confidence |-> conf,
   confidence_level |-> AsBuilt,
   file_path |-> path, line_start |-> line, title |-> title,
   description |-> descr, evidence |-> <<>>, analysis_result_id |-> NoId]

\* ------------------------------------------------------------- Prioritizer
CATEGORY_WEIGHTS ==
  [security |-> 10, bug |-> 8, architecture |-> 6, performance |-> 5,
   business_logic |-> 7, test |-> 4, code_quality |-> 3, style |-> 1]

PRIORITY_WEIGHTS ==
  [critical |-> 10, high |-> 7, medium |-> 4, low |-> 2, info |-> 1]

critical_keywords ==
  <<"auth", "payment", "security", "encrypt", "secret", "admin", "permission", "access">>

\* the keywords compared with the path as written
CaseSensitive_is_critical_file(file_path) ==
  \E i \in DOMAIN critical_keywords : Contains(file_path, critical_keywords[i])

_is_critical_file(file_path) ==
  \E i \in DOMAIN critical_keywords : Contains(Lower(file_path), critical_keywords[i])

\* the score without the boost for critical files
Unboosted_calculate_score(result) ==
  CATEGORY_WEIGHTS[result.category] * PRIORITY_WEIGHTS[result.priority] * result.confidence
    * 2 * (IF result.category = "security" THEN 6 ELSE 5)

\* base_score * 1.5 is base_score * 3 / 2, base_score * 1.2 is base_score * 6 / 5;
\* the value is the score times ConfOne * ScoreDen
_calculate_score(result) ==
  LET category_weight ==
        IF result.category \in DOMAIN CATEGORY_WEIGHTS
          THEN CATEGORY_WEIGHTS[result.category] ELSE 1
      priority_weight ==
        IF result.priority \in DOMAIN PRIORITY_WEIGHTS
          THEN PRIORITY_WEIGHTS[result.priority] ELSE 1
      base_score == category_weight * priority_weight * result.confidence
      critical_boost == IF _is_critical_file(result.file_path) THEN 3 ELSE 2
      security_boost == IF result.category = "security" THEN 6 ELSE 5
  IN  base_score * critical_boost * security_boost

TitlePrefixLen == 50

\* the signature built from the whole title
WholeTitleSignature(result) ==
  <<result.file_path, result.line_start, result.category, result.title>>

Signature(result) ==
  <<result.file_path, result.line_start, result.category,
    Prefix(result.title, TitlePrefixLen)>>

\* list.sort(key=lambda x: x[0], reverse=True): a stable sort, elements with
\* equal keys keep their order.  Insert each element, left to right, after the
\* last element whose key is not smaller.
\* a sort that puts an element before the elements of equal key
RECURSIVE InsertBeforeEqual(_, _)
InsertBeforeEqual(sorted, x) ==
  IF sorted = <<>> THEN <<x>>
  ELSE IF Head(sorted)[1] > x[1]
         THEN <<Head(sorted)>> \o InsertBeforeEqual(Tail(sorted), x)
         ELSE <<x>> \o sorted

RECURSIVE InsertByScore(_, _)
InsertByScore(sorted, x) ==
  IF sorted = <<>> THEN <<x>>
  ELSE IF Head(sorted)[1] >= x[1]
         THEN <<Head(sorted)>> \o InsertByScore(Tail(sorted), x)
         ELSE <<x>> \o sorted

\* the sort without reverse=True
RECURSIVE InsertAscending(_, _)
InsertAscending(sorted, x) ==
  IF sorted = <<>> THEN <<x>>
  ELSE IF Head(sorted)[1] <= x[1]
         THEN <<Head(sorted)>> \o InsertAscending(Tail(sorted), x)
         ELSE <<x>> \o sorted

RECURSIVE SortByScoreAsc(_)
SortByScoreAsc(scored) ==
  IF scored = <<>> THEN <<>>
  ELSE InsertAscending(SortByScoreAsc(SubSeq(scored, 1, Len(scored) - 1)),
                       scored[Len(scored)])

RECURSIVE SortByScoreDesc(_)
SortByScoreDesc(scored) ==
  IF scored = <<>> THEN <<>>
  ELSE InsertByScore(SortByScoreDesc(SubSeq(scored, 1, Len(scored) - 1)),
                     scored[Len(scored)])

ScoreAll(results) == [i \in 1..Len(results) |-> <<_calculate_score(results[i]), results[i]>>]

\* a deduplication that keeps the last finding of each signature
RECURSIVE KeepLastFrom(_, _, _)
KeepLastFrom(results, i, seen) ==
  IF i > Len(results) THEN <<>>
  ELSE IF \E k \in (i + 1)..Len(results) : Signature(results[k]) = Signature(results[i])
         THEN KeepLastFrom(results, i + 1, seen)
         ELSE <<results[i]>> \o KeepLastFrom(results, i + 1, seen)

RECURSIVE DedupFrom(_, _, _)
DedupFrom(results, i, seen) ==
  IF i > Len(results) THEN <<>>
  ELSE IF Signature(results[i]) \notin seen
         THEN <<results[i]>> \o DedupFrom(results, i + 1, seen \cup {Signature(results[i])})
         ELSE DedupFrom(results, i + 1, seen)

_deduplicate(results) == DedupFrom(results, 1, {})

Unscored(scored) == [i \in 1..Len(scored) |-> scored[i][2]]

prioritize(results) == _deduplicate(Unscored(SortByScoreDesc(ScoreAll(results))))

\* ------------------------------------------------- regular expressions (re)
\* A pattern is a sequence of atoms.  A "lit" atom matches one of a set of
\* lower-case literals (IGNORECASE: compared with the lower-cased text); a
\* "cls" atom matches at least min characters of a character class, greedily.
Lit(alts) == [kind |-> "lit", alts |-> alts]
Cls(chars, neg, min) == [kind |-> "cls", chars |-> chars, neg |-> neg, min |-> min]

Whitespace == {" ", "\t"}
WsStar == Cls(Whitespace, FALSE, 0)

InClass(c, atom) == (c \in atom.chars) # atom.neg

\* the position after the longest run of class characters starting at i
RECURSIVE RunEnd(_, _, _)
RunEnd(s, i, atom) ==
  IF i <= Len(s) /\ InClass(CharAt(s, i), atom) THEN RunEnd(s, i + 1, atom) ELSE i

\* the positions an atom can end at (next unread index), started at any of P
AtomEnds(s, atom, P) ==
  IF atom.kind = "lit"
    THEN {p + Len(a) : <<p, a>> \in
            {pa \in P \X atom.alts :
               /\ pa[1] + Len(pa[2]) - 1 <= Len(s)
               /\ SubSeq(s, pa[1], pa[1] + Len(pa[2]) - 1) = pa[2]}}
    ELSE UNION {(p + atom.min)..RunEnd(s, p, atom) : p \in P}

RECURSIVE MatchEnds(_, _, _, _)
MatchEnds(s, atoms, k, P) ==
  IF k > Len(atoms) \/ P = {} THEN P
  ELSE MatchEnds(s, atoms, k + 1, AtomEnds(s, atoms[k], P))

SetMax(S) == CHOOSE x \in S : \A y \in S : y <= x

\* regex.finditer(line): the matches, leftmost first, not overlapping; each
\* match is <<start, end>> with end the next unread index
RECURSIVE FindIterFrom(_, _, _)
FindIterFrom(s, atoms, from) ==
  IF from > Len(s) THEN <<>>
  ELSE LET ends == MatchEnds(s, atoms, 1, {from})
       IN  IF ends = {} THEN FindIterFrom(s, atoms, from + 1)
           ELSE <<<<from, SetMax(ends)>>>> \o
                FindIterFrom(s, atoms, Max(SetMax(ends), from + 1))

FindIter(line_content, atoms) == FindIterFrom(Lower(line_content), atoms, 1)

\* ---------------------------------------------------------- PatternMatcher
\* the patterns in the order the dictionary holds them
ANTI_PATTERNS == <<
  [name |-> "empty_catch",
   \* catch\s*\([^)]*\)\s*\{\s*\}
   pattern |-> <<Lit({"catch"}), WsStar, Lit({"("}), Cls({")"}, TRUE, 0), Lit({")"}),
                 WsStar, Lit({"{"}), WsStar, Lit({"}"})>>,
   category |-> "bug", priority |-> "medium", confidence |-> 70,
   message |-> "Empty catch block may hide errors"],
  [name |-> "hardcoded_secret",
   \* (?:password|secret|api[_-]?key|token)\s*=\s*['\"][^'\"]+['\"]
   pattern |-> <<Lit({"password", "secret", "apikey", "api_key", "api-key", "token"}),
                 WsStar, Lit({"="}), WsStar, Lit({"'", "\""}),
                 Cls({"'", "\""}, TRUE, 1), Lit({"'", "\""})>>,
   category |-> "security", priority |-> "critical", confidence |-> 80,
   message |-> "Potential hardcoded secret detected"],
  [name |-> "todo_in_code",
   \* (?:TODO|FIXME|HACK|XXX):\s*(.+)
   pattern |-> <<Lit({"todo", "fixme", "hack", "xxx"}), Lit({":"}), WsStar,
                 Cls({}, TRUE, 1)>>,
   category |-> "code_quality", priority |-> "low", confidence |-> 60,
   message |-> "TODO/FIXME comment found"],
  [name |-> "print_debug",
   \* print\s*\([^)]+\)
   pattern |-> <<Lit({"print"}), WsStar, Lit({"("}), Cls({")"}, TRUE, 1), Lit({")"})>>,
   category |-> "code_quality", priority |-> "low", confidence |-> 50,
   message |-> "Print statement found (debug code?)"],
  [name |-> "broad_except",
   \* except\s*:
   pattern |-> <<Lit({"except"}), WsStar, Lit({":"})>>,
   category |-> "bug", priority |-> "medium", confidence |-> 65,
   message |-> "Bare except clause catches all exceptions"],
  [name |-> "nested_try",
   \* try\s*\{[^}]*try\s*\{
   pattern |-> <<Lit({"try"}), WsStar, Lit({"{"}), Cls({"}"}, TRUE, 0),
                 Lit({"try"}), WsStar, Lit({"{"})>>,
   category |-> "code_quality", priority |-> "low", confidence |-> 50,
   message |-> "Nested try-catch blocks may indicate complex error handling"] >>

\* every line that starts with + taken for a header
PlusIsDiffHeader(line) ==
  StartsWith(line, "---") \/ StartsWith(line, "+") \/ StartsWith(line, "@@")
    \/ StartsWith(line, "diff")

IsDiffHeader(line) ==
  StartsWith(line, "---") \/ StartsWith(line, "+++") \/ StartsWith(line, "@@")
    \/ StartsWith(line, "diff")

\* the line numbers of the matches of a pattern in the added lines of a diff,
\* one entry per match, in the order found
RECURSIVE FindMatchesFrom(_, _, _, _)
FindMatchesFrom(lines, atoms, i, current_line) ==
  IF i > Len(lines) THEN <<>>
  ELSE LET line == lines[i] IN
    IF IsDiffHeader(line) THEN FindMatchesFrom(lines, atoms, i + 1, current_line)
    ELSE IF StartsWith(line, "+") /\ ~StartsWith(line, "+++")
      THEN [m \in 1..Len(FindIter(SubSeq(line, 2, Len(line)), atoms)) |-> current_line + 1]
             \o FindMatchesFrom(lines, atoms, i + 1, current_line + 1)
    ELSE IF ~StartsWith(line, "-")
      THEN FindMatchesFrom(lines, atoms, i + 1, current_line + 1)
    ELSE FindMatchesFrom(lines, atoms, i + 1, current_line)

_find_pattern_matches(diff_content, pattern) == FindMatchesFrom(diff_content, pattern, 1, 0)

\* every finding kept, whatever its confidence
KeepAllResults(results, min_conf) == results

_filter_by_confidence(results, min_conf) ==
  SelectSeq(results, LAMBDA r : r.confidence >= min_conf)

NoLanguage == "none"

PatternResults(file_diff, cfg) ==
  LET matches == _find_pattern_matches(file_diff.diff, cfg.pattern)
  IN  [m \in 1..Len(matches) |->
         Finding(cfg.category, cfg.priority, Pct(cfg.confidence), file_diff.file_path,
                 matches[m], cfg.message,
                 "Found " \o cfg.name \o " pattern in " \o file_diff.file_path)]

RECURSIVE FilePatternResults(_, _, _)
FilePatternResults(file_diff, patterns, k) ==
  IF k > Len(patterns) THEN <<>>
  ELSE PatternResults(file_diff, patterns[k]) \o FilePatternResults(file_diff, patterns, k + 1)

RECURSIVE PatternMatcherFrom(_, _, _)
PatternMatcherFrom(diff, patterns, i) ==
  IF i > Len(diff) THEN <<>>
  ELSE IF diff[i].status = "removed" THEN PatternMatcherFrom(diff, patterns, i + 1)
  ELSE IF diff[i].language = NoLanguage \/ diff[i].language = "binary"
    THEN PatternMatcherFrom(diff, patterns, i + 1)
  ELSE FilePatternResults(diff[i], patterns, 1) \o PatternMatcherFrom(diff, patterns, i + 1)

PatternMatcherFloor == 50

\* PatternMatcher.analyze
PatternMatcher_analyze(req) ==
  _filter_by_confidence(PatternMatcherFrom(req.diff, ANTI_PATTERNS, 1), Pct(PatternMatcherFloor))


\* PatternMatcher.__init__: self.patterns.update(custom_patterns) replaces the
\* entry of a name the dictionary holds and adds a new name at the end
RECURSIVE UpdatePatterns(_, _, _)
UpdatePatterns(held, custom_patterns, k) ==
  IF k > Len(custom_patterns) THEN held
  ELSE LET cfg == custom_patterns[k]
           at == {i \in DOMAIN held : held[i].name = cfg.name}
       IN  UpdatePatterns(IF at = {} THEN Append(held, cfg)
                          ELSE [i \in DOMAIN held |-> IF i \in at THEN cfg ELSE held[i]],
                          custom_patterns, k + 1)

PatternMatcher_init(custom_patterns) == UpdatePatterns(ANTI_PATTERNS, custom_patterns, 1)

\* --------------------------------------------------------- TestGapAnalyzer
\* s.replace(old, "")
RECURSIVE Remove(_, _)
Remove(s, old) ==
  IF Len(s) < Len(old) THEN s
  ELSE IF SubSeq(s, 1, Len(old)) = old THEN Remove(SubSeq(s, Len(old) + 1, Len(s)), old)
  ELSE CharAt(s, 1) \o Remove(SubSeq(s, 2, Len(s)), old)

\* k in file_diff.diff.lower(), for a k without a line break
DiffContains(diff, k) == \E i \in DOMAIN diff : Contains(Lower(diff[i]), k)

\* {diff.file_path for diff in request.diff if diff.status != "removed"}
changed_files(request) ==
  {request.diff[i].file_path : i \in {j \in DOMAIN request.diff : request.diff[j].status # "removed"}}

\* {diff.file_path for diff in request.diff if "test" in diff.file_path.lower()}
test_files(request) ==
  {request.diff[i].file_path :
     i \in {j \in DOMAIN request.diff : Contains(Lower(request.diff[j].file_path), "test")}}

base_name(file_path) == Remove(Remove(file_path, ".py"), ".js")

\* the candidates of has_test are the changed files, the file itself included
has_test(file_path, candidates) ==
  \E test_file \in candidates :
    \/ Contains(test_file, base_name(file_path))
    \/ Remove(Remove(test_file, "test_"), "_test") = base_name(file_path)

MissingTestsThreshold == 10

RECURSIVE MissingTestsFrom(_, _)
MissingTestsFrom(request, i) ==
  IF i > Len(request.diff) THEN <<>>
  ELSE LET file_diff == request.diff[i] IN
    IF file_diff.status = "removed" THEN MissingTestsFrom(request, i + 1)
    ELSE IF Contains(Lower(file_diff.file_path), "test") THEN MissingTestsFrom(request, i + 1)
    ELSE IF ~has_test(file_diff.file_path, changed_files(request))
            /\ file_diff.changes > MissingTestsThreshold
      THEN <<Finding("test", "medium", Pct(60), file_diff.file_path, 1,
                     "No corresponding test file detected",
                     "Changed file " \o file_diff.file_path
                       \o " doesn't appear to have corresponding tests")>>
             \o MissingTestsFrom(request, i + 1)
    ELSE MissingTestsFrom(request, i + 1)

_check_missing_tests(request) == MissingTestsFrom(request, 1)

RECURSIVE TestQualityFrom(_, _)
TestQualityFrom(request, i) ==
  IF i > Len(request.diff) THEN <<>>
  ELSE LET file_diff == request.diff[i] IN
    IF ~Contains(Lower(file_diff.file_path), "test") THEN TestQualityFrom(request, i + 1)
    ELSE IF ~DiffContains(file_diff.diff, "assert") /\ ~DiffContains(file_diff.diff, "expect")
      THEN <<Finding("test", "medium", Pct(70), file_diff.file_path, 1,
                     "Test may lack assertions",
                     "Test file doesn't appear to have assertions")>>
             \o TestQualityFrom(request, i + 1)
    ELSE TestQualityFrom(request, i + 1)

_check_test_quality(request) == TestQualityFrom(request, 1)

\* ------------------------------------------------ the analyzers' floors
SecurityScannerFloor == 60
ArchitectureCheckerFloor == 50
PerformancePredictorFloor == 50
TestGapAnalyzerFloor == 50

\* the min_confidence each analyze() hands to _filter_by_confidence
Floor(name) ==
  CASE name = "PatternMatcher" -> Pct(PatternMatcherFloor)
    [] name = "SecurityScanner" -> Pct(SecurityScannerFloor)
    [] name = "ArchitectureChecker" -> Pct(ArchitectureCheckerFloor)
    [] name = "PerformancePredictor" -> Pct(PerformancePredictorFloor)
    [] name = "TestGapAnalyzer" -> Pct(TestGapAnalyzerFloor)

\* TestGapAnalyzer.analyze
TestGapAnalyzer_analyze(request) ==
  _filter_by_confidence(_check_missing_tests(request) \o _check_test_quality(request),
                        Pct(TestGapAnalyzerFloor))

\* Findings the checks of SecurityScanner, ArchitectureChecker and
\* PerformancePredictor build for a file, in the order of the checks: of each
\* analyzer the finding with the lowest confidence, of PerformancePredictor
\* also one above its floor.  Which checks fire depends on keywords of the
\* diff; the model lets any of them fire.
CheckFindings(name, path) ==
  CASE name = "SecurityScanner" ->
         << Finding("security", "high", Pct(60), path, 1, "Endpoint may lack authentication",
                    "New endpoint detected without obvious authentication decorator") >>
    [] name = "ArchitectureChecker" ->
         << Finding("architecture", "low", Pct(50), path, 1, "Large change set detected",
                    "Large change set") >>
    [] name = "PerformancePredictor" ->
         << Finding("performance", "medium", Pct(60), path, 1, "Potential N+1 query pattern",
                    "Database query detected inside loop, which may cause N+1 problem"),
            Finding("performance", "low", Pct(40), path, 1, "Query may benefit from index",
                    "WHERE clause detected - ensure appropriate indexes exist") >>

\* ------------------------------------------------------- FeedbackCollector
\* a dict is a function on its keys; {} is the function with no keys
EmptyDict == <<>>
DictGet(d, k, default) == IF k \in DOMAIN d THEN d[k] ELSE default
\* not d
IsEmptyDict(d) == DOMAIN d = {}

\* what the Redis ledger answers for one stats key: "unavailable" (no client,
\* or hgetall raises) or the counters stored under the key
LedgerUnavailable == [available |-> FALSE]
LedgerEntry(total, positive) ==
  [available |-> TRUE, total_count |-> total, positive_count |-> positive]
LedgerAnswers ==
  {LedgerUnavailable} \cup
  {LedgerEntry(t, p) : <<t, p>> \in (0..MaxFeedback) \X (0..MaxFeedback)}

\* FeedbackCollector.get_feedback_stats; positive_ratio in units of ConfOne
get_feedback_stats(answer) ==
  IF ~answer.available THEN EmptyDict
  ELSE [total_feedback |-> answer.total_count,
        positive_count |-> answer.positive_count,
        positive_ratio |-> IF answer.total_count > 0
                             THEN (answer.positive_count * ConfOne) \div answer.total_count
                             ELSE 0]

\* -------------------------------------------------------- FeedbackAnalyzer
\* multipliers are in hundredths
DefaultMultiplier == 100

\* the feedback ratio left out of the adjustment
IgnoredRatio(positive_ratio) == 0

\* (positive_ratio - 0.5) * 0.2
ratio_adjustment(positive_ratio) == (positive_ratio - ConfOne \div 2) \div 5

\* the adjusted value returned as computed
Unclamped(x) == x

Clamp01(x) == Max(0, Min(ConfOne, x))

\* the table looked up under priority_category
PriorityFirstMultiplier(result, patterns) ==
  LET pattern_id == result.priority \o "_" \o result.category
  IN  IF pattern_id \in DOMAIN patterns
        THEN patterns[pattern_id].confidence_multiplier
        ELSE DefaultMultiplier

\* the confidence_multiplier of the entry keyed category_priority, else 1.0
pattern_multiplier(result, patterns) ==
  LET pattern_id == result.category \o "_" \o result.priority
  IN  IF pattern_id \in DOMAIN patterns
        THEN patterns[pattern_id].confidence_multiplier
        ELSE DefaultMultiplier

\* FeedbackAnalyzer.adjust_confidence(result, feedback_stats): feedback_stats
\* is the optional argument, answer is what the ledger says when it is asked
adjust_confidence(result, feedback_stats, answer, patterns) ==
  LET stats == IF IsEmptyDict(feedback_stats) THEN get_feedback_stats(answer)
               ELSE feedback_stats
      multiplier == pattern_multiplier(result, patterns)
      positive_ratio == DictGet(stats, "positive_ratio", ConfOne \div 2)
      adjusted == (result.confidence * multiplier) \div 100 + ratio_adjustment(positive_ratio)
  IN  IF IsEmptyDict(stats) \/ DictGet(stats, "total_feedback", 0) = 0
        THEN result.confidence
        ELSE Clamp01(adjusted)

\* ------------------------------------------------------ HistoricalAnalyzer
SimilarPr(n, score, method) == [pr_number |-> n, similarity_score |-> score, method |-> method]
IssueBug(id, title) == [source |-> "related_issue", issue_id |-> id, title |-> title]
Neo4jBug(n, title) == [source |-> "neo4j", pr_number |-> n, title |-> title]

\* a slice that runs one element too far
TakeOneMore(seq, n) == SubSeq(seq, 1, Min(n + 1, Len(seq)))

\* seq[:n] for n >= 0
Take(seq, n) == SubSeq(seq, 1, Min(n, Len(seq)))

SimilarEvidence(hd) ==
  LET prs == Take(DictGet(hd, "similar_prs", <<>>), 3)
  IN  [i \in 1..Len(prs) |->
         <<"Similar pattern in PR", prs[i].pr_number, prs[i].similarity_score, prs[i].method>>]

BugEvidence(hd) ==
  LET bugs == Take(DictGet(hd, "bug_patterns", <<>>), 2)
      known == SelectSeq(bugs, LAMBDA b : b.source \in {"related_issue", "neo4j"})
  IN  [i \in 1..Len(known) |->
         IF known[i].source = "related_issue"
           THEN <<"Related to issue", known[i].issue_id, known[i].title>>
           ELSE <<"Similar files modified in PR", known[i].pr_number, known[i].title>>]

\* the evidence written into the description instead of the evidence list
enhance_into_description(results, hd) ==
  [i \in 1..Len(results) |->
     IF Len(SimilarEvidence(hd) \o BugEvidence(hd)) > 0
       THEN [results[i] EXCEPT !.description = @ \o " (seen before)"]
       ELSE results[i]]

\* HistoricalAnalyzer.enhance_results_with_history
enhance_results_with_history(results, hd) ==
  [i \in 1..Len(results) |->
     [results[i] EXCEPT !.evidence = @ \o SimilarEvidence(hd) \o BugEvidence(hd)]]


\* ------------------------------------------------------------ ReviewEngine
VARIABLES
  pc,                  \* where review() stands
  min_confidence,      \* ReviewEngine.min_confidence
  max_results,         \* ReviewEngine.max_results
  enable_historical,   \* ReviewEngine.enable_historical
  enable_learning,     \* ReviewEngine.enable_learning
  team_patterns,       \* TeamPatternsLoader.patterns
  learning_patterns,   \* FeedbackAnalyzer.learning_patterns
  request,             \* the CodeReviewRequest under review
  analyzer_idx,        \* position of the loop over self.analyzers
  produced,            \* what each analyzer call returned, or Raised
  all_results,         \* review(): all_results
  historical_data,     \* review(): historical_data
  learn_idx,           \* position of the loop of _apply_learning
  calibrations,        \* _apply_learning(): per finding, whether adjust_confidence returned
  adjusted_results,    \* _apply_learning(): adjusted_results
  filtered_results,    \* review(): filtered_results / prioritize(): results
  scored_results,      \* prioritize(): scored_results after the sort
  prioritized_results, \* review(): prioritized_results
  returned,            \* the list review() returned
  reprioritized,       \* the result of prioritize() called on its own output
  cal_result,          \* adjust_confidence(): result
  cal_stats,           \* adjust_confidence(): feedback_stats
  cal_ledger,          \* what the ledger answered to adjust_confidence(), if asked
  cal_out,             \* what adjust_confidence() returned
  deadline_fired_at,   \* analyzers called when the caller's deadline passed, or NoDeadline
  matcher_patterns,    \* PatternMatcher.patterns
  calls,               \* the analyze() calls in flight, with their local variables
  now,                 \* datetime.now().timestamp()
  learn_call,          \* the last call of a learning operation of FeedbackAnalyzer
  ledger,              \* the Redis hash feedback:stats:<analysis_result_id>
  collectors,          \* the collect_feedback() calls in flight
  stats_read,          \* what get_feedback_stats() returned last
  hist                 \* the last direct call of a HistoricalAnalyzer method

vars ==
  <<pc, min_confidence, max_results, enable_historical, enable_learning,
    team_patterns, learning_patterns, request, analyzer_idx, produced, all_results,
    historical_data, learn_idx, calibrations, adjusted_results, filtered_results,
    scored_results, prioritized_results, returned, reprioritized,
    cal_result, cal_stats, cal_ledger, cal_out, deadline_fired_at,
    matcher_patterns, calls, now, learn_call, ledger, collectors, stats_read, hist>>

engineVars ==
  <<min_confidence, max_results, enable_historical, enable_learning, team_patterns>>
calVars == <<cal_result, cal_stats, cal_ledger, cal_out>>
analyzerVars == <<matcher_patterns, calls>>
learnVars == <<now, learn_call>>
collectorVars == <<ledger, collectors, stats_read>>
sideVars == <<analyzerVars, learnVars, collectorVars, hist>>

None == "None"
\* the caller's deadline has not passed
NoDeadline == 0 - 1
\* how a call that may raise ended
Raised == [raised |-> TRUE]
Returned(value) == [raised |-> FALSE, value |-> value]

\* the analyzers in the order ReviewEngine registers them
Analyzers ==
  <<"PatternMatcher", "SecurityScanner", "ArchitectureChecker",
    "PerformancePredictor", "TestGapAnalyzer">>
NumAnalyzers == Len(Analyzers)

DefaultMinConfidence == 60
DefaultMaxResults == 50

FileDiff(path, status, language, diff) ==
  [file_path |-> path, status |-> status, language |-> language, diff |-> diff]

Request(diff, ctx) == [diff |-> diff, team_context |-> ctx]

\* the diff of tests/test_analyzers.py without its debug print: a hard-coded
\* password and a bare except
SampleDiff ==
  <<"", "+def test_function():", "+    password = \"hardcoded123\"", "+    try:",
    "+        do_something()", "+    except:", "+        pass", "+">>

\* a password and an empty handler that is neither bare nor on one line
NamedExceptDiff ==
  <<"@@ -1,2 +1,4 @@", " import os", "+password = 'abc123'",
    "+except ValueError:", "+    pass">>

\* a secret and a one-line empty catch
CatchDiff ==
  <<"-old();", "+const password = \"abc123\";", "+try { run(); } catch (e) {}">>

\* the lines of a deleted file
RemovedDiff == <<"-password = \"old\"", "-except:", "-    pass">>

\* two secrets on one added line
TwoSecretsDiff == <<"+token = \"a\"; secret = \"b\";">>

Requests ==
  { Request(<<FileDiff("src/test.py", "modified", "python", SampleDiff)>>, None),
    Request(<<FileDiff("src/test.py", "modified", NoLanguage, SampleDiff)>>, None),
    Request(<<FileDiff("src/old.py", "removed", "python", RemovedDiff)>>, None),
    Request(<<FileDiff("lib/named.py", "added", "python", NamedExceptDiff)>>, "team"),
    Request(<<FileDiff("auth/Login.js", "modified", "javascript", CatchDiff)>>, None),
    Request(<<FileDiff("cfg/keys.rb", "added", "ruby", TwoSecretsDiff)>>, None),
    Request(<<>>, None) }

\* Findings the other analyzers build (one representative each); the model
\* lets such an analyzer return any list of at most MaxPerAnalyzer of them for
\* the files of the request, or raise.
StubFinding(name, path) ==
  CASE name = "SecurityScanner" ->
         Finding("security", "medium", Pct(70), path, 1,
                 "Potential sensitive data in logs",
                 "Found 'password' keyword near logging statements")
    [] name = "ArchitectureChecker" ->
         Finding("architecture", "low", Pct(50), path, 1,
                 "Large change set detected", "Large change set")
    [] name = "PerformancePredictor" ->
         Finding("performance", "high", Pct(70), path, 1,
                 "Blocking I/O in async function", "Blocking I/O")
    [] name = "TestGapAnalyzer" ->
         Finding("test", "medium", Pct(60), path, 1,
                 "No corresponding test file detected",
                 "Changed file " \o path \o " doesn't appear to have corresponding tests")

SeqsUpTo(S, n) == UNION {[1..k -> S] : k \in 0..n}

AnalyzerReturns(name, req, merged) ==
  IF name = "PatternMatcher" THEN {PatternMatcher_analyze(req)}
  ELSE {ret \in SeqsUpTo({StubFinding(name, req.diff[i].file_path) : i \in DOMAIN req.diff},
                          MaxPerAnalyzer) : merged + Len(ret) <= MaxFindings}

HistoricalOutcomes ==
  { EmptyDict,
    [similar_prs |-> <<SimilarPr(7, 91, "vector_search"), SimilarPr(5, 80, "file_overlap"),
                       SimilarPr(3, 70, "file_overlap"), SimilarPr(2, 60, "file_overlap")>>,
     bug_patterns |-> <<IssueBug(11, "Login error"), Neo4jBug(4, "Fix crash"),
                        Neo4jBug(6, "Fix leak")>>,
     team_patterns |-> "patterns"] }

\* --------------------------------------------------------- TeamPatternsLoader
\* what _load_patterns left in self.patterns: a JSON object (the empty dict
\* when there is no file, the file's object, or the default patterns), or the
\* top-level value of a file that holds valid JSON other than an object
JsonObject == [is_dict |-> TRUE]
JsonArray == [is_dict |-> FALSE]
LoadedPatterns == {JsonObject, JsonArray}

\* TeamPatternsLoader.get_team_context: self.patterns.get(...) raises
\* AttributeError on anything that is not a dict
get_team_context(patterns) ==
  IF patterns.is_dict THEN Returned("default") ELSE Raised

reviewVars ==
  <<pc, engineVars, learning_patterns, request, analyzer_idx, produced, all_results,
    historical_data, learn_idx, calibrations, adjusted_results, filtered_results,
    scored_results, prioritized_results, returned, reprioritized, calVars,
    deadline_fired_at>>

\* the components review() does not drive, before any call of them
AnalyzersIdle == matcher_patterns = ANTI_PATTERNS /\ calls = <<>>
LearningIdle == now = 0 /\ learn_call = <<>>
CollectorIdle == ledger = <<>> /\ collectors = <<>> /\ stats_read = <<>>
HistoryIdle == hist = <<>>

TypeOK ==
  /\ pc \in {"Idle", "Init", "TeamContextLoaded", "Analyzing", "AnalyzersRun", "Enriched",
             "Calibrated", "Filtered", "Prioritized", "Done", "Raised",
             "Reprioritized", "CalReady", "CalDone"}
  /\ enable_historical \in BOOLEAN
  /\ enable_learning \in BOOLEAN
  /\ analyzer_idx \in 1..(NumAnalyzers + 1)

\* the state after ReviewEngine.__init__
Init ==
  /\ pc = "Idle"
  /\ min_confidence \in {Pct(DefaultMinConfidence), Pct(75)}
  /\ max_results \in {DefaultMaxResults, 1}
  /\ enable_historical \in BOOLEAN
  /\ enable_learning \in BOOLEAN
  /\ team_patterns \in LoadedPatterns
  /\ learning_patterns = EmptyDict
  /\ request = None
  /\ analyzer_idx = 1
  /\ produced = <<>>
  /\ all_results = <<>>
  /\ historical_data = EmptyDict
  /\ learn_idx = 1
  /\ calibrations = <<>>
  /\ adjusted_results = <<>>
  /\ filtered_results = <<>>
  /\ scored_results = <<>>
  /\ prioritized_results = <<>>
  /\ returned = None
  /\ reprioritized = None
  /\ cal_result = None
  /\ cal_stats = EmptyDict
  /\ cal_ledger = None
  /\ cal_out = None
  /\ deadline_fired_at = NoDeadline
  /\ AnalyzersIdle
  /\ LearningIdle
  /\ CollectorIdle
  /\ HistoryIdle

\* a caller invokes review(request)
StartReview ==
  /\ pc = "Idle"
  /\ \E req \in Requests : request' = req
  /\ pc' = "Init"
  /\ UNCHANGED <<sideVars, engineVars, deadline_fired_at, learning_patterns, analyzer_idx, produced, all_results,
                 historical_data, learn_idx, calibrations, adjusted_results, filtered_results,
                 scored_results, prioritized_results, returned, reprioritized, calVars>>

\* review(), lines 72-81: load the team context (an exception of
\* get_team_context leaves review()), store the PR data (any failure of the
\* store is caught and only logged)
LoadTeamContext ==
  /\ pc = "Init"
  /\ IF request.team_context = None
       THEN LET context == get_team_context(team_patterns)
            IN  IF context.raised
                  THEN pc' = "Raised" /\ UNCHANGED request
                  ELSE /\ request' = [request EXCEPT !.team_context = context.value]
                       /\ pc' = "TeamContextLoaded"
       ELSE pc' = "TeamContextLoaded" /\ UNCHANGED request
  /\ UNCHANGED <<sideVars, engineVars, deadline_fired_at, learning_patterns, analyzer_idx, produced, all_results,
                 historical_data, learn_idx, calibrations, adjusted_results, filtered_results,
                 scored_results, prioritized_results, returned, reprioritized, calVars>>

\* what the loop body does with one analyzer: outcome is Raised or the list
\* analyze() returned
\* a failing analyzer that takes the findings collected so far with it
DropAllOnRaise(results, outcome) ==
  IF outcome.raised THEN <<>> ELSE results \o outcome.value

AfterAnalyzer(results, outcome) ==
  IF outcome.raised THEN results ELSE results \o outcome.value

\* review(), lines 83-93: one turn of the loop over self.analyzers
RunAnalyzer ==
  /\ pc \in {"TeamContextLoaded", "Analyzing"}
  /\ analyzer_idx <= NumAnalyzers
  /\ \E outcome \in {Raised} \cup
                      {Returned(v) : v \in AnalyzerReturns(Analyzers[analyzer_idx], request,
                                                           Len(all_results))} :
       /\ produced' = Append(produced, outcome)
       /\ all_results' = AfterAnalyzer(all_results, outcome)
  /\ analyzer_idx' = analyzer_idx + 1
  /\ pc' = IF analyzer_idx = NumAnalyzers THEN "AnalyzersRun" ELSE "Analyzing"
  /\ UNCHANGED <<sideVars, engineVars, deadline_fired_at, learning_patterns, request, historical_data, learn_idx, calibrations,
                 adjusted_results, filtered_results, scored_results,
                 prioritized_results, returned, reprioritized, calVars>>

\* enrichment that starts while the last analyzer has not been run
EnrichBeforeLastAnalyzer ==
  /\ pc = "Analyzing"
  /\ analyzer_idx = NumAnalyzers
  /\ IF enable_historical
       THEN \E hd \in HistoricalOutcomes :
              /\ historical_data' = hd
              /\ all_results' = enhance_results_with_history(all_results, hd)
       ELSE UNCHANGED <<historical_data, all_results>>
  /\ learn_idx' = 1
  /\ calibrations' = <<>>
  /\ adjusted_results' = <<>>
  /\ pc' = "Enriched"
  /\ UNCHANGED <<sideVars, engineVars, deadline_fired_at, learning_patterns, request, analyzer_idx,
                 produced, filtered_results, scored_results, prioritized_results,
                 returned, reprioritized, calVars>>

\* review(), lines 95-101: gather the historical context (an exception while
\* gathering leaves the data gathered so far) and attach the evidence
Enrich ==
  /\ pc = "AnalyzersRun"
  /\ IF enable_historical
       THEN \E hd \in HistoricalOutcomes :
              /\ historical_data' = hd
              /\ all_results' = enhance_results_with_history(all_results, hd)
       ELSE UNCHANGED <<historical_data, all_results>>
  /\ learn_idx' = 1
  /\ calibrations' = <<>>
  /\ adjusted_results' = <<>>
  /\ pc' = "Enriched"
  /\ UNCHANGED <<sideVars, engineVars, deadline_fired_at, learning_patterns, request, analyzer_idx, produced,
                 filtered_results, scored_results, prioritized_results, returned,
                 reprioritized, calVars>>

\* the analysis_result_id _apply_learning derives: category, path, line and
\* hash(title)
AnalysisResultId(result) ==
  <<result.category, result.file_path, result.line_start, result.title>>

WithId(result) ==
  IF result.analysis_result_id = NoId
    THEN [result EXCEPT !.analysis_result_id = AnalysisResultId(result)]
    ELSE result

\* _apply_learning, lines 163-172
ConfidenceLevel(confidence) ==
  IF confidence >= Pct(90) THEN "VERY_HIGH"
  ELSE IF confidence >= Pct(70) THEN "HIGH"
  ELSE IF confidence >= Pct(50) THEN "MEDIUM"
  ELSE IF confidence >= Pct(30) THEN "LOW"
  ELSE "VERY_LOW"

\* one turn of the loop of _apply_learning, lines 147-177: outcome is Raised
\* (adjust_confidence raised) or the answer of the ledger
LearnOne(result, outcome, patterns) ==
  IF outcome.raised THEN WithId(result)
  ELSE LET adjusted_confidence ==
             adjust_confidence(WithId(result), EmptyDict, outcome.value, patterns)
       IN  IF adjusted_confidence # result.confidence
             THEN [WithId(result) EXCEPT
                     !.confidence = adjusted_confidence,
                     !.confidence_level = ConfidenceLevel(adjusted_confidence)]
             ELSE WithId(result)

\* a finding whose calibration raised is left out of adjusted_results
LearnStepDroppingFailed ==
  /\ pc = "Enriched"
  /\ enable_learning
  /\ learn_idx <= Len(all_results)
  /\ \E outcome \in {Raised} \cup {Returned(a) : a \in LedgerAnswers} :
       LET r == LearnOne(all_results[learn_idx], outcome, learning_patterns)
       IN  /\ all_results' = [all_results EXCEPT ![learn_idx] = r]
           /\ adjusted_results' = IF outcome.raised THEN adjusted_results
                                  ELSE Append(adjusted_results, r)
           /\ calibrations' = Append(calibrations, ~outcome.raised)
  /\ learn_idx' = learn_idx + 1
  /\ UNCHANGED <<sideVars, pc, engineVars, deadline_fired_at, learning_patterns, request,
                 analyzer_idx, produced, historical_data, filtered_results,
                 scored_results, prioritized_results, returned, reprioritized, calVars>>

LearnStep ==
  /\ pc = "Enriched"
  /\ enable_learning
  /\ learn_idx <= Len(all_results)
  /\ \E outcome \in {Raised} \cup {Returned(a) : a \in LedgerAnswers} :
       LET r == LearnOne(all_results[learn_idx], outcome, learning_patterns)
       IN  /\ all_results' = [all_results EXCEPT ![learn_idx] = r]
           /\ adjusted_results' = Append(adjusted_results, r)
           /\ calibrations' = Append(calibrations, ~outcome.raised)
  /\ learn_idx' = learn_idx + 1
  /\ UNCHANGED <<sideVars, pc, engineVars, deadline_fired_at, learning_patterns, request, analyzer_idx, produced,
                 historical_data, filtered_results, scored_results,
                 prioritized_results, returned, reprioritized, calVars>>

\* review(), lines 103-105: _apply_learning returns adjusted_results, or the
\* stage is skipped
LearnDone ==
  /\ pc = "Enriched"
  /\ ~enable_learning \/ learn_idx > Len(all_results)
  /\ all_results' = IF enable_learning THEN adjusted_results ELSE all_results
  /\ pc' = "Calibrated"
  /\ UNCHANGED <<sideVars, engineVars, deadline_fired_at, learning_patterns, request, analyzer_idx, produced,
                 historical_data, learn_idx, calibrations, adjusted_results, filtered_results,
                 scored_results, prioritized_results, returned, reprioritized, calVars>>

\* review(), lines 107-111: [r for r in all_results if r.confidence >= min_confidence]
\* the filter run with the analyzers' default floor instead of min_confidence
FilterByDefaultFloor(results, min_conf) ==
  SelectSeq(results, LAMBDA r : r.confidence >= Pct(50))

FilterByMinConfidence(results, min_conf) ==
  SelectSeq(results, LAMBDA r : r.confidence >= min_conf)

Filter ==
  /\ pc = "Calibrated"
  /\ filtered_results' = FilterByMinConfidence(all_results, min_confidence)
  /\ pc' = "Filtered"
  /\ UNCHANGED <<sideVars, engineVars, deadline_fired_at, learning_patterns, request, analyzer_idx, produced,
                 all_results, historical_data, learn_idx, calibrations, adjusted_results,
                 scored_results, prioritized_results, returned, reprioritized, calVars>>

\* review(), line 114 and Prioritizer.prioritize
Prioritize ==
  /\ pc = "Filtered"
  /\ scored_results' = SortByScoreDesc(ScoreAll(filtered_results))
  /\ prioritized_results' = prioritize(filtered_results)
  /\ pc' = "Prioritized"
  /\ UNCHANGED <<sideVars, engineVars, deadline_fired_at, learning_patterns, request, analyzer_idx, produced,
                 all_results, historical_data, learn_idx, calibrations, adjusted_results,
                 filtered_results, returned, reprioritized, calVars>>

\* review(), line 117
Return ==
  /\ pc = "Prioritized"
  /\ returned' = Take(prioritized_results, max_results)
  /\ pc' = "Done"
  /\ UNCHANGED <<sideVars, engineVars, deadline_fired_at, learning_patterns, request, analyzer_idx, produced,
                 all_results, historical_data, learn_idx, calibrations, adjusted_results,
                 filtered_results, scored_results, prioritized_results,
                 reprioritized, calVars>>

\* ------------------------------------------- direct calls of the components
\* Prioritizer.prioritize called again on the list it returned
Reprioritize ==
  /\ pc = "Prioritized"
  /\ reprioritized' = prioritize(prioritized_results)
  /\ pc' = "Reprioritized"
  /\ UNCHANGED <<sideVars, engineVars, deadline_fired_at, learning_patterns, request, analyzer_idx, produced,
                 all_results, historical_data, learn_idx, calibrations, adjusted_results,
                 filtered_results, scored_results, prioritized_results, returned,
                 calVars>>

\* FeedbackAnalyzer.adjust_confidence(result, feedback_stats) called directly
AdjustConfidence ==
  /\ pc = "CalReady"
  /\ IF IsEmptyDict(cal_stats)
       THEN \E answer \in LedgerAnswers :
              /\ cal_out' = adjust_confidence(cal_result, cal_stats, answer, learning_patterns)
              /\ cal_ledger' = answer
       ELSE /\ cal_out' = adjust_confidence(cal_result, cal_stats, LedgerUnavailable,
                                            learning_patterns)
            /\ UNCHANGED cal_ledger
  /\ pc' = "CalDone"
  /\ UNCHANGED <<sideVars, engineVars, deadline_fired_at, learning_patterns, request, analyzer_idx, produced,
                 all_results, historical_data, learn_idx, calibrations, adjusted_results,
                 filtered_results, scored_results, prioritized_results, returned,
                 reprioritized, cal_result, cal_stats>>

Next ==
  \/ StartReview
  \/ LoadTeamContext
  \/ RunAnalyzer
  \/ Enrich
  \/ LearnStep
  \/ LearnDone
  \/ Filter
  \/ Prioritize
  \/ Return

Spec == Init /\ [][Next]_vars

\* ------------------------------------------------------- the caller's deadline
\* review() takes no deadline and reads no clock, and none of the coroutines it
\* awaits suspends (the analyzers compute, the stores are called through
\* blocking clients), so a timeout or a cancel() of the task is delivered only
\* after review() has returned.  The deadline passing is a step of the
\* environment that review() does not observe.
Running ==
  {"Init", "TeamContextLoaded", "Analyzing", "AnalyzersRun", "Enriched", "Calibrated",
   "Filtered", "Prioritized"}

DeadlineFires ==
  /\ pc \in Running
  /\ deadline_fired_at = NoDeadline
  /\ deadline_fired_at' = Len(produced)
  /\ UNCHANGED <<sideVars, pc, engineVars, learning_patterns, request, analyzer_idx, produced,
                 all_results, historical_data, learn_idx, calibrations, adjusted_results,
                 filtered_results, scored_results, prioritized_results, returned,
                 reprioritized, calVars>>

\* one engine with the default configuration
InitCancellable ==
  /\ Init
  /\ min_confidence = Pct(DefaultMinConfidence)
  /\ max_results = DefaultMaxResults
  /\ enable_historical
  /\ enable_learning
  /\ team_patterns = JsonObject

NextCancellable == Next \/ DeadlineFires

SpecCancellable == InitCancellable /\ [][NextCancellable]_vars


\* ----------------------------------------------- inputs of the direct calls
RECURSIVE Repeat(_, _)
Repeat(c, n) == IF n = 0 THEN "" ELSE c \o Repeat(c, n - 1)

\* two titles that agree on their first 50 characters and differ after them
LongTitleA == Repeat("x", TitlePrefixLen) \o "A"
LongTitleB == Repeat("x", TitlePrefixLen) \o "B"

Paths ==
  {"auth/login.py", "utils/helpers.py", "lib/Encrypt.py", "billing/PAYMENT.py",
   "core/security.py", "cfg/secrets.yml", "admin/panel.js", "acl/permissions.py",
   "net/access_log.py", "src/test.py"}

\* one finding of every category and priority on every path
SingleFindings ==
  {Finding(c, p, Pct(k), path, 1, "Title", "d") :
     <<c, p, k, path>> \in Categories \X Priorities \X {0, 80} \X Paths}

\* findings that collide: equal signatures, equal scores, long titles
ListPool ==
  { Finding("bug", "medium", Pct(70), "src/a.py", 3, "Empty catch", "first"),
    Finding("bug", "medium", Pct(70), "src/a.py", 3, "Empty catch", "second"),
    Finding("bug", "medium", Pct(90), "src/a.py", 3, "Empty catch", "third"),
    Finding("bug", "medium", Pct(70), "src/a.py", 4, "Empty catch", "other line"),
    Finding("style", "info", Pct(100), "src/a.py", 3, LongTitleA, "long a"),
    Finding("style", "high", Pct(100), "src/a.py", 3, LongTitleB, "long b"),
    Finding("security", "high", Pct(50), "auth/login.py", 1, "Secret", "boosted"),
    Finding("test", "low", Pct(0), "src/a.py", 3, "Zero", "zero") }

PrioritizeInputs ==
  {<<f>> : f \in SingleFindings} \cup SeqsUpTo(ListPool, MaxListLen)

\* a caller hands a list to the tail of review(): prioritize and truncate
InitPrioritizer ==
  /\ pc = "Filtered"
  /\ filtered_results \in PrioritizeInputs
  /\ min_confidence = 0
  /\ max_results \in {DefaultMaxResults, 1}
  /\ enable_historical = TRUE
  /\ enable_learning = TRUE
  /\ team_patterns = JsonObject
  /\ learning_patterns = EmptyDict
  /\ request = None
  /\ analyzer_idx = 1
  /\ produced = <<>>
  /\ all_results = <<>>
  /\ historical_data = EmptyDict
  /\ learn_idx = 1
  /\ calibrations = <<>>
  /\ adjusted_results = <<>>
  /\ scored_results = <<>>
  /\ prioritized_results = <<>>
  /\ returned = None
  /\ reprioritized = None
  /\ cal_result = None
  /\ cal_stats = EmptyDict
  /\ cal_ledger = None
  /\ cal_out = None
  /\ deadline_fired_at = NoDeadline
  /\ AnalyzersIdle
  /\ LearningIdle
  /\ CollectorIdle
  /\ HistoryIdle

NextPrioritizer == Prioritize \/ Return \/ Reprioritize

SpecPrioritizer == InitPrioritizer /\ [][NextPrioritizer]_vars

LearningPattern(type, cat, mult) ==
  [pattern_type |-> type, category |-> cat, confidence_multiplier |-> mult]

\* learning tables: empty, one entry under a key adjust_confidence looks up,
\* one entry under a key it never looks up
Multipliers == {0, 70, 100, 120, 130, 250}
PatternTables ==
  {EmptyDict} \cup
  {("bug_medium" :> LearningPattern("category_feedback", "bug", m)) : m \in Multipliers} \cup
  {("bug_negative" :> LearningPattern("category_feedback", "bug", 70))}

CalFindings ==
  {Finding(c, "medium", Pct(k), "src/a.py", 3, "Title", "d") :
     <<c, k>> \in {"bug", "style"} \X {0, 5, 50, 65, 95, 100}}

\* feedback_stats arguments: none, no feedback, all positive, all negative,
\* no ratio given, a ratio above one
StatsInputs ==
  { EmptyDict,
    [total_feedback |-> 0, positive_ratio |-> ConfOne],
    [total_feedback |-> 10, positive_ratio |-> ConfOne],
    [total_feedback |-> 10, positive_ratio |-> 0],
    [total_feedback |-> 10],
    [total_feedback |-> 1, positive_ratio |-> 2 * ConfOne] }

MaxCalList == 2

\* a caller of adjust_confidence, or of _apply_learning, with any learning table
InitCalibrator ==
  /\ \/ /\ pc = "CalReady"
        /\ cal_result \in CalFindings
        /\ cal_stats \in StatsInputs
        /\ all_results = <<>>
     \/ /\ pc = "Enriched"
        /\ cal_result = None
        /\ cal_stats = EmptyDict
        /\ all_results \in SeqsUpTo(CalFindings, MaxCalList)
  /\ learning_patterns \in PatternTables
  /\ min_confidence = Pct(DefaultMinConfidence)
  /\ max_results = DefaultMaxResults
  /\ enable_historical = TRUE
  /\ enable_learning = TRUE
  /\ team_patterns = JsonObject
  /\ request = None
  /\ analyzer_idx = 1
  /\ produced = <<>>
  /\ historical_data = EmptyDict
  /\ learn_idx = 1
  /\ calibrations = <<>>
  /\ adjusted_results = <<>>
  /\ filtered_results = <<>>
  /\ scored_results = <<>>
  /\ prioritized_results = <<>>
  /\ returned = None
  /\ reprioritized = None
  /\ cal_ledger = None
  /\ cal_out = None
  /\ deadline_fired_at = NoDeadline
  /\ AnalyzersIdle
  /\ LearningIdle
  /\ CollectorIdle
  /\ HistoryIdle

NextCalibrator == AdjustConfidence \/ LearnStep \/ LearnDone

SpecCalibrator == InitCalibrator /\ [][NextCalibrator]_vars


\* ------------------------------------------------ direct calls of analyze()
\* how many analyze() calls are in flight at once
MaxCalls == 2

ChangedFile(path, status, language, changes, diff) ==
  [file_path |-> path, status |-> status, language |-> language, changes |-> changes,
   diff |-> diff]

\* a test file with an assertion
AssertingTestDiff == <<"+def test_run():", "+    assert run()">>

\* the fixture of tests/test_analyzers.py; a file changed without its tests; a
\* file changed together with its test file; a stub file; a deleted file; a
\* small change
AnalyzerRequests ==
  { Request(<<ChangedFile("src/test.py", "modified", "python", 15, SampleDiff)>>, None),
    Request(<<ChangedFile("src/app.py", "modified", "python", 20, NamedExceptDiff)>>, None),
    Request(<<ChangedFile("app.py", "modified", "python", 20, NamedExceptDiff),
              ChangedFile("test_app.py", "added", "python", 5, AssertingTestDiff)>>, None),
    Request(<<ChangedFile("src/app.pyi", "added", "python", 11, TwoSecretsDiff)>>, None),
    Request(<<ChangedFile("src/old.py", "removed", "python", 20, RemovedDiff)>>, None),
    Request(<<ChangedFile("lib/util.js", "modified", "javascript", 10, CatchDiff)>>, None) }

\* custom_patterns: none, a new low-confidence pattern, a built-in pattern
\* overridden with a confidence under the floor
CustomPatterns ==
  { <<>>,
    <<[name |-> "pass_stmt", pattern |-> <<Lit({"pass"})>>,
       category |-> "style", priority |-> "info", confidence |-> 30,
       message |-> "pass statement"]>>,
    <<[name |-> "broad_except", pattern |-> <<Lit({"except"}), WsStar, Lit({":"})>>,
       category |-> "bug", priority |-> "low", confidence |-> 40,
       message |-> "Bare except"]>> }

\* a slot no call has used
IdleCall ==
  [state |-> "idle", analyzer |-> "", request |-> Request(<<>>, None), step |-> 0,
   results |-> <<>>, returned |-> <<>>]

\* the units of work of one call: PatternMatcher takes the files in turn,
\* TestGapAnalyzer runs its two checks, the other analyzers run their checks
Steps(name, req) ==
  CASE name = "PatternMatcher" -> Len(req.diff)
    [] name = "TestGapAnalyzer" -> 2
    [] OTHER -> 1

\* the pairs (check, file) in the order the checks append their findings
CheckOrder(name, req) ==
  LET nc == Len(CheckFindings(name, ""))
      nf == Len(req.diff)
  IN  [n \in 1..(nc * nf) |-> <<((n - 1) \div nf) + 1, ((n - 1) % nf) + 1>>]

\* results when exactly the checks in fired find their keywords
FiredFindings(name, req, fired) ==
  LET order == SelectSeq(CheckOrder(name, req), LAMBDA ci : ci \in fired)
  IN  [n \in DOMAIN order |-> CheckFindings(name, req.diff[order[n][2]].file_path)[order[n][1]]]

\* what one unit of work appends to the local list results
StepResults(name, req, k, held) ==
  CASE name = "PatternMatcher" -> {PatternMatcherFrom(<<req.diff[k]>>, held, 1)}
    [] name = "TestGapAnalyzer" ->
         {IF k = 1 THEN _check_missing_tests(req) ELSE _check_test_quality(req)}
    [] OTHER ->
         {FiredFindings(name, req, fired) : fired \in SUBSET Range(CheckOrder(name, req))}

\* a caller invokes analyze(request) of one of the analyzers
CallAnalyze ==
  /\ \E s \in DOMAIN calls, name \in Range(Analyzers), req \in AnalyzerRequests :
       /\ calls[s].state \in {"idle", "returned"}
       /\ calls' = [calls EXCEPT ![s] =
                      [state |-> "running", analyzer |-> name, request |-> req, step |-> 1,
                       results |-> <<>>, returned |-> <<>>]]
  /\ UNCHANGED <<matcher_patterns, reviewVars, learnVars, collectorVars, hist>>

\* every call of an analyzer appends to one list results kept on the analyzer
AnalyzeStepOnSharedResults ==
  /\ \E s \in DOMAIN calls :
       /\ calls[s].state = "running"
       /\ calls[s].step <= Steps(calls[s].analyzer, calls[s].request)
       /\ \E r \in StepResults(calls[s].analyzer, calls[s].request, calls[s].step,
                               matcher_patterns) :
            calls' = [t \in DOMAIN calls |->
                        IF t = s THEN [calls[s] EXCEPT !.results = @ \o r, !.step = @ + 1]
                        ELSE IF calls[t].state = "running"
                                /\ calls[t].analyzer = calls[s].analyzer
                          THEN [calls[t] EXCEPT !.results = @ \o r]
                        ELSE calls[t]]
  /\ UNCHANGED <<matcher_patterns, reviewVars, learnVars, collectorVars, hist>>

\* one unit of work of a call: results.extend(...)
AnalyzeStep ==
  /\ \E s \in DOMAIN calls :
       /\ calls[s].state = "running"
       /\ calls[s].step <= Steps(calls[s].analyzer, calls[s].request)
       /\ \E r \in StepResults(calls[s].analyzer, calls[s].request, calls[s].step,
                               matcher_patterns) :
            calls' = [calls EXCEPT ![s].results = @ \o r, ![s].step = @ + 1]
  /\ UNCHANGED <<matcher_patterns, reviewVars, learnVars, collectorVars, hist>>

\* return self._filter_by_confidence(results, min_confidence=...); the local
\* list results ends with the call
AnalyzeReturn ==
  /\ \E s \in DOMAIN calls :
       /\ calls[s].state = "running"
       /\ calls[s].step > Steps(calls[s].analyzer, calls[s].request)
       /\ calls' = [calls EXCEPT ![s].state = "returned",
                                 ![s].results = <<>>,
                                 ![s].returned = _filter_by_confidence(calls[s].results,
                                                   Floor(calls[s].analyzer))]
  /\ UNCHANGED <<matcher_patterns, reviewVars, learnVars, collectorVars, hist>>

\* what analyze() returns for a request when no other call runs
AloneReturns(name, req, held) ==
  CASE name = "PatternMatcher" ->
         {_filter_by_confidence(PatternMatcherFrom(req.diff, held, 1), Floor(name))}
    [] name = "TestGapAnalyzer" -> {TestGapAnalyzer_analyze(req)}
    [] OTHER ->
         {_filter_by_confidence(FiredFindings(name, req, fired), Floor(name)) :
            fired \in SUBSET Range(CheckOrder(name, req))}

\* the analyzers of one process, PatternMatcher built with or without custom
\* patterns, and no call yet
AnalyzersBuilt(n) ==
  /\ \E custom_patterns \in CustomPatterns :
       matcher_patterns = PatternMatcher_init(custom_patterns)
  /\ calls = [s \in 1..n |-> IdleCall]
  /\ pc = "Idle"
  /\ min_confidence = Pct(DefaultMinConfidence)
  /\ max_results = DefaultMaxResults
  /\ enable_historical = TRUE
  /\ enable_learning = TRUE
  /\ team_patterns = JsonObject
  /\ learning_patterns = EmptyDict
  /\ request = None
  /\ analyzer_idx = 1
  /\ produced = <<>>
  /\ all_results = <<>>
  /\ historical_data = EmptyDict
  /\ learn_idx = 1
  /\ calibrations = <<>>
  /\ adjusted_results = <<>>
  /\ filtered_results = <<>>
  /\ scored_results = <<>>
  /\ prioritized_results = <<>>
  /\ returned = None
  /\ reprioritized = None
  /\ cal_result = None
  /\ cal_stats = EmptyDict
  /\ cal_ledger = None
  /\ cal_out = None
  /\ deadline_fired_at = NoDeadline
  /\ LearningIdle
  /\ CollectorIdle
  /\ HistoryIdle

NextAnalyzers == CallAnalyze \/ AnalyzeStep \/ AnalyzeReturn

\* one caller at a time
InitAnalyzers == AnalyzersBuilt(1)

SpecAnalyzers == InitAnalyzers /\ [][NextAnalyzers]_vars

\* up to MaxCalls callers at once
InitConcurrentAnalyzers == AnalyzersBuilt(MaxCalls)

SpecConcurrentAnalyzers == InitConcurrentAnalyzers /\ [][NextAnalyzers]_vars


\* ------------------------------- FeedbackAnalyzer: the learning operations
\* d[k] = v
Put(d, k, v) == [x \in DOMAIN d \cup {k} |-> IF x = k THEN v ELSE d[x]]

Digits == <<"0", "1", "2", "3", "4", "5", "6", "7", "8", "9">>

\* str(n)
RECURSIVE ToStr(_)
ToStr(n) == IF n < 10 THEN Digits[n + 1] ELSE ToStr(n \div 10) \o Digits[(n % 10) + 1]

\* WHERE count >= 3
MinFeedbackCount == 3

\* a row the graph store aggregates: ar.category, f.type (None where the
\* property is null) and count(*)
FeedbackRow(category, feedback_type, count) ==
  [category |-> category, feedback_type |-> feedback_type, count |-> count]

\* the query of analyze_feedback_patterns over the aggregates of the graph,
\* which come ordered by count
feedback_query(aggregates) ==
  SelectSeq(aggregates, LAMBDA row : row.count >= MinFeedbackCount)

base_multiplier(feedback_type) ==
  CASE Lower(feedback_type) = "positive" -> 110
    [] Lower(feedback_type) = "negative" -> 90
    [] Lower(feedback_type) = "neutral" -> 100
    [] Lower(feedback_type) = "correction" -> 95
    [] Lower(feedback_type) = "ignored" -> 85
    [] OTHER -> DefaultMultiplier

\* the adjustment grows with the count without a cap
UncappedMultiplier(feedback_type, count) ==
  LET adjustment == count * 10
  IN  IF Lower(feedback_type) = "positive" THEN base_multiplier(feedback_type) + adjustment
      ELSE IF Lower(feedback_type) = "negative"
        THEN base_multiplier(feedback_type) - adjustment
      ELSE base_multiplier(feedback_type)

\* FeedbackAnalyzer._calculate_multiplier, in hundredths: count / 10.0 is
\* count * 10 hundredths
_calculate_multiplier(feedback_type, count) ==
  LET adjustment == Min(count * 10, 20)
  IN  IF Lower(feedback_type) = "positive" THEN base_multiplier(feedback_type) + adjustment
      ELSE IF Lower(feedback_type) = "negative"
        THEN base_multiplier(feedback_type) - adjustment
      ELSE base_multiplier(feedback_type)

\* the pattern stored under the key adjust_confidence looks up for the
\* medium findings of the category
category_medium_id(category, feedback_type) == category \o "_medium"

\* f"{category}_{feedback_type}"
category_feedback_id(category, feedback_type) == category \o "_" \o feedback_type

CategoryFeedbackPattern(row) ==
  [pattern_id |-> category_feedback_id(row.category, row.feedback_type),
   pattern_type |-> "category_feedback",
   category |-> row.category,
   pattern_description |-> row.feedback_type \o " feedback for " \o row.category \o " category",
   feedback_count |-> row.count,
   confidence_multiplier |-> _calculate_multiplier(row.feedback_type, row.count)]

\* the loop of analyze_feedback_patterns from row k on: a row whose
\* feedback_type is None raises in _calculate_multiplier (None has no lower())
\* and ends the loop in the except clause
RECURSIVE LearnRows(_, _, _)
LearnRows(rows, k, acc) ==
  IF k > Len(rows) THEN acc
  ELSE IF rows[k].feedback_type = None THEN [acc EXCEPT !.failed = TRUE]
  ELSE LET pattern == CategoryFeedbackPattern(rows[k])
       IN  LearnRows(rows, k + 1,
                     [table |-> Put(acc.table, pattern.pattern_id, pattern),
                      patterns |-> Append(acc.patterns, pattern),
                      failed |-> FALSE])

FalsePositiveMultiplier == 70
FalseNegativeMultiplier == 120

FalsePattern(prefix, type, category, file_pattern, timestamp, multiplier) ==
  [pattern_id |-> prefix \o "_" \o category \o "_" \o ToStr(timestamp),
   pattern_type |-> type,
   category |-> category,
   pattern_description |-> "False " \o SubSeq(type, 7, Len(type)) \o " pattern for " \o category,
   file_pattern |-> file_pattern,
   confidence_multiplier |-> multiplier,
   should_apply |-> TRUE]

\* how far the clock goes, and how many learning operations are called
MaxClock == 1
MaxLearnCalls == 2
\* how many aggregates the graph holds
MaxRows == 2

\* aggregates of three with a positive, a negative, another and no feedback
\* type, and an aggregate of two
RowPool ==
  { FeedbackRow("bug", "positive", 3), FeedbackRow("bug", "negative", 3),
    FeedbackRow("code_quality", "ignored", 3), FeedbackRow("bug", None, 3),
    FeedbackRow("code_quality", "positive", 2) }

\* the aggregates of the graph: one row per category and feedback type,
\* ordered by count
Aggregates ==
  {rows \in SeqsUpTo(RowPool, MaxRows) :
     \A i, j \in DOMAIN rows :
       i < j => /\ rows[i].count >= rows[j].count
                /\ <<rows[i].category, rows[i].feedback_type>>
                     # <<rows[j].category, rows[j].feedback_type>>}

LearnCategories == {"bug", "style"}
FilePatterns == {None, "tests/"}

CallsMade == IF DOMAIN learn_call = {} THEN 0 ELSE learn_call.n

LearnCall(op, before, aggregates, failed, out) ==
  [op |-> op, n |-> CallsMade + 1, before |-> before, aggregates |-> aggregates,
   failed |-> failed, out |-> out]

\* FeedbackAnalyzer.analyze_feedback_patterns: the query raises, or its rows
\* are turned into patterns one by one
AnalyzeFeedbackPatterns ==
  /\ CallsMade < MaxLearnCalls
  /\ \/ /\ learn_call' = LearnCall("analyze_feedback_patterns", learning_patterns, <<>>,
                                   TRUE, <<>>)
        /\ UNCHANGED learning_patterns
     \/ \E aggregates \in Aggregates :
          LET rows == feedback_query(aggregates)
              done == LearnRows(rows, 1, [table |-> learning_patterns, patterns |-> <<>>,
                                          failed |-> FALSE])
          IN  /\ learning_patterns' = done.table
              /\ learn_call' = LearnCall("analyze_feedback_patterns", learning_patterns,
                                         aggregates, done.failed,
                                         IF done.failed THEN <<>> ELSE done.patterns)
  /\ UNCHANGED <<now, analyzerVars, collectorVars, hist, pc, engineVars, request,
                 analyzer_idx, produced, all_results, historical_data, learn_idx,
                 calibrations, adjusted_results, filtered_results, scored_results,
                 prioritized_results, returned, reprioritized, calVars, deadline_fired_at>>

\* FeedbackAnalyzer.learn_from_false_positives(category, file_pattern)
LearnFromFalsePositives ==
  /\ CallsMade < MaxLearnCalls
  /\ \E category \in LearnCategories, file_pattern \in FilePatterns, timestamp \in now..MaxClock :
       LET pattern == FalsePattern("fp", "false_positive", category, file_pattern, timestamp,
                                   FalsePositiveMultiplier)
       IN  /\ now' = timestamp
           /\ learning_patterns' = Put(learning_patterns, pattern.pattern_id, pattern)
           /\ learn_call' = LearnCall("learn_from_false_positives", learning_patterns, <<>>,
                                      FALSE, <<pattern>>)
  /\ UNCHANGED <<analyzerVars, collectorVars, hist, pc, engineVars, request,
                 analyzer_idx, produced, all_results, historical_data, learn_idx,
                 calibrations, adjusted_results, filtered_results, scored_results,
                 prioritized_results, returned, reprioritized, calVars, deadline_fired_at>>

\* FeedbackAnalyzer.learn_from_false_negatives(category, file_pattern)
LearnFromFalseNegatives ==
  /\ CallsMade < MaxLearnCalls
  /\ \E category \in LearnCategories, file_pattern \in FilePatterns, timestamp \in now..MaxClock :
       LET pattern == FalsePattern("fn", "false_negative", category, file_pattern, timestamp,
                                   FalseNegativeMultiplier)
       IN  /\ now' = timestamp
           /\ learning_patterns' = Put(learning_patterns, pattern.pattern_id, pattern)
           /\ learn_call' = LearnCall("learn_from_false_negatives", learning_patterns, <<>>,
                                      FALSE, <<pattern>>)
  /\ UNCHANGED <<analyzerVars, collectorVars, hist, pc, engineVars, request,
                 analyzer_idx, produced, all_results, historical_data, learn_idx,
                 calibrations, adjusted_results, filtered_results, scored_results,
                 prioritized_results, returned, reprioritized, calVars, deadline_fired_at>>

\* a FeedbackAnalyzer after __init__: the learning table is empty
InitLearning ==
  /\ learning_patterns = EmptyDict
  /\ LearningIdle
  /\ pc = "Idle"
  /\ min_confidence = Pct(DefaultMinConfidence)
  /\ max_results = DefaultMaxResults
  /\ enable_historical = TRUE
  /\ enable_learning = TRUE
  /\ team_patterns = JsonObject
  /\ request = None
  /\ analyzer_idx = 1
  /\ produced = <<>>
  /\ all_results = <<>>
  /\ historical_data = EmptyDict
  /\ learn_idx = 1
  /\ calibrations = <<>>
  /\ adjusted_results = <<>>
  /\ filtered_results = <<>>
  /\ scored_results = <<>>
  /\ prioritized_results = <<>>
  /\ returned = None
  /\ reprioritized = None
  /\ cal_result = None
  /\ cal_stats = EmptyDict
  /\ cal_ledger = None
  /\ cal_out = None
  /\ deadline_fired_at = NoDeadline
  /\ AnalyzersIdle
  /\ CollectorIdle
  /\ HistoryIdle

NextLearning == AnalyzeFeedbackPatterns \/ LearnFromFalsePositives \/ LearnFromFalseNegatives

SpecLearning == InitLearning /\ [][NextLearning]_vars


\* ------------------------------------- FeedbackCollector: collect and read
\* how many collect_feedback() calls are made, all of them for one
\* analysis_result_id
MaxCollects == 2

FeedbackTypes == {"positive", "negative"}

\* hincrby(stats_key, field, 1)
hincrby(hash, field) == Put(hash, field, DictGet(hash, field, 0) + 1)

\* get_feedback_stats, lines 251-266, on the hash hgetall returned
ReadStats(stats) ==
  LET total == DictGet(stats, "total_count", 0)
      positive == DictGet(stats, "positive_count", 0)
  IN  [total_feedback |-> total,
       positive_count |-> positive,
       negative_count |-> DictGet(stats, "negative_count", 0),
       neutral_count |-> DictGet(stats, "neutral_count", 0),
       correction_count |-> DictGet(stats, "correction_count", 0),
       positive_ratio |-> IF total > 0 THEN (positive * ConfOne) \div total ELSE 0]

\* a slot no call has used
IdleCollect ==
  [state |-> "idle", feedback_type |-> "", graph_stored |-> FALSE, ledger_stored |-> FALSE,
   returned |-> FALSE]

\* a caller invokes collect_feedback(feedback)
CollectFeedback ==
  /\ \E s \in DOMAIN collectors, feedback_type \in FeedbackTypes :
       /\ collectors[s].state = "idle"
       /\ collectors' = [collectors EXCEPT ![s].state = "neo4j",
                                           ![s].feedback_type = feedback_type]
  /\ UNCHANGED <<ledger, stats_read, analyzerVars, learnVars, hist, reviewVars>>

\* _store_in_neo4j: the query runs, or it raises and the exception is printed
StoreInNeo4j ==
  /\ \E s \in DOMAIN collectors, stored \in BOOLEAN :
       /\ collectors[s].state = "neo4j"
       /\ collectors' = [collectors EXCEPT ![s].state = "redis",
                                           ![s].graph_stored = stored]
  /\ UNCHANGED <<ledger, stats_read, analyzerVars, learnVars, hist, reviewVars>>

\* the state of a call after _store_in_redis has ended: collect_feedback
\* returns True
Collected(call, stored) ==
  [call EXCEPT !.state = "done", !.ledger_stored = stored, !.returned = TRUE]

\* _store_in_redis, lines 101-109: without a client nothing is stored;
\* lpush and expire run, or raise and the exception is printed
PushFeedback ==
  /\ \E s \in DOMAIN collectors :
       /\ collectors[s].state = "redis"
       /\ IF ~ledger.client
            THEN collectors' = [collectors EXCEPT ![s] = Collected(collectors[s], FALSE)]
            ELSE \E pushed \in BOOLEAN :
                   collectors' = [collectors EXCEPT ![s] =
                                    IF pushed THEN [collectors[s] EXCEPT !.state = "type_count"]
                                    ELSE Collected(collectors[s], FALSE)]
  /\ UNCHANGED <<ledger, stats_read, analyzerVars, learnVars, hist, reviewVars>>

\* _store_in_redis, line 113: hincrby of <type>_count
IncrementTypeCount ==
  /\ \E s \in DOMAIN collectors, incremented \in BOOLEAN :
       /\ collectors[s].state = "type_count"
       /\ IF incremented
            THEN /\ ledger' = [ledger EXCEPT !.hash =
                                 hincrby(@, collectors[s].feedback_type \o "_count")]
                 /\ collectors' = [collectors EXCEPT ![s].state = "total_count"]
            ELSE /\ UNCHANGED ledger
                 /\ collectors' = [collectors EXCEPT ![s] = Collected(collectors[s], FALSE)]
  /\ UNCHANGED <<stats_read, analyzerVars, learnVars, hist, reviewVars>>

\* _store_in_redis, lines 114-117: hincrby of total_count, and the return of
\* collect_feedback
IncrementTotalCount ==
  /\ \E s \in DOMAIN collectors, incremented \in BOOLEAN :
       /\ collectors[s].state = "total_count"
       /\ ledger' = IF incremented THEN [ledger EXCEPT !.hash = hincrby(@, "total_count")]
                    ELSE ledger
       /\ collectors' = [collectors EXCEPT ![s] = Collected(collectors[s], incremented)]
  /\ UNCHANGED <<stats_read, analyzerVars, learnVars, hist, reviewVars>>

\* get_feedback_stats(analysis_result_id): {} without a client or when hgetall
\* raises
GetFeedbackStats ==
  /\ \E answered \in BOOLEAN :
       stats_read' = IF ledger.client /\ answered THEN ReadStats(ledger.hash) ELSE EmptyDict
  /\ UNCHANGED <<ledger, collectors, analyzerVars, learnVars, hist, reviewVars>>

\* a FeedbackCollector after __init__, with or without a Redis client, and an
\* empty ledger
InitCollector ==
  /\ ledger \in {[client |-> c, hash |-> EmptyDict] : c \in BOOLEAN}
  /\ collectors = [s \in 1..MaxCollects |-> IdleCollect]
  /\ stats_read = EmptyDict
  /\ learning_patterns = EmptyDict
  /\ pc = "Idle"
  /\ min_confidence = Pct(DefaultMinConfidence)
  /\ max_results = DefaultMaxResults
  /\ enable_historical = TRUE
  /\ enable_learning = TRUE
  /\ team_patterns = JsonObject
  /\ request = None
  /\ analyzer_idx = 1
  /\ produced = <<>>
  /\ all_results = <<>>
  /\ historical_data = EmptyDict
  /\ learn_idx = 1
  /\ calibrations = <<>>
  /\ adjusted_results = <<>>
  /\ filtered_results = <<>>
  /\ scored_results = <<>>
  /\ prioritized_results = <<>>
  /\ returned = None
  /\ reprioritized = None
  /\ cal_result = None
  /\ cal_stats = EmptyDict
  /\ cal_ledger = None
  /\ cal_out = None
  /\ deadline_fired_at = NoDeadline
  /\ AnalyzersIdle
  /\ LearningIdle
  /\ HistoryIdle

NextCollector ==
  \/ CollectFeedback
  \/ StoreInNeo4j
  \/ PushFeedback
  \/ IncrementTypeCount
  \/ IncrementTotalCount
  \/ GetFeedbackStats

SpecCollector == InitCollector /\ [][NextCollector]_vars


\* ------------------------------------ HistoricalAnalyzer: the four methods
\* a request as the four methods read it
PullRequest(pr_number, diff, related_issues) ==
  [owner |-> "acme", name |-> "app", pr_number |-> pr_number, diff |-> diff,
   related_issues |-> related_issues]

ChangedPath(path, status) == [file_path |-> path, status |-> status]
RelatedIssue(id, title, labels) == [id |-> id, title |-> title, labels |-> labels]

HistoryRequests ==
  {PullRequest(5, <<>>, <<>>),
   PullRequest(5, <<ChangedPath("a.py", "modified")>>,
               <<RelatedIssue("1", "Error on start", <<>>)>>),
   PullRequest(5, <<ChangedPath("a.py", "removed")>>,
               <<RelatedIssue("2", "Docs", <<"bug">>), RelatedIssue("3", "Docs", <<>>)>>),
   PullRequest(5, <<ChangedPath("a.py", "modified"), ChangedPath("b.py", "added")>>, <<>>)}

\* how a call of a collaborator ends: it raises, or it returns one of the values
Outcomes(values) == {Raised} \cup {Returned(v) : v \in values}

\* QdrantConnection.search_similar_prs: [] without a client, else the hits
QdrantHits ==
  {<<>>,
   <<[pr_id |-> "acme/app#7", pr_number |-> "7", similarity_score |-> Pct(80)]>>}

\* Neo4jConnection.find_related_prs_by_files
RelatedRows ==
  {<<>>,
   <<[pr_id |-> "other/lib#7", pr_number |-> 7, common_files |-> 1]>>,
   <<[pr_id |-> "acme/app#5", pr_number |-> 5, common_files |-> 1]>>,
   <<[pr_id |-> "acme/app#7", pr_number |-> 7, common_files |-> 1],
     [pr_id |-> "acme/app#8", pr_number |-> 8, common_files |-> 2],
     [pr_id |-> "acme/app#7", pr_number |-> 7, common_files |-> 2]>>}

\* GithubClient.get_related_prs
GithubRelated == {<<>>, <<"7", "9">>}

\* the rows of the query of find_bug_patterns
BugRows == {<<>>, <<[pr_id |-> "acme/app#7", pr_number |-> 7, title |-> "Fix crash"]>>}

\* the rows of the query of get_team_patterns, with and without file_path
TeamRows ==
  {<<>>,
   <<[file_path |-> "a.py", modification_count |-> 4]>>,
   <<[modification_count |-> 4]>>}

\* try: <attempt> except Exception as e: print(...), leaving what the block had
\* built before the exception
Reraise(attempt, kept) == attempt

TryExcept(attempt, kept) == IF attempt.raised THEN Returned(kept) ELSE attempt

\* store_pr_data: the Neo4j block, then the embedding and Qdrant block
store_pr_data(req, neo4j, embedder, qdrant) ==
  LET graph == TryExcept(IF neo4j.raised THEN Raised ELSE Returned(None), None)
      vector == IF graph.raised THEN Raised
                ELSE TryExcept(IF embedder.raised \/ qdrant.raised THEN Raised
                               ELSE Returned(None), None)
  IN  vector

\* find_similar_prs, lines 148-157: the hits of the request's repository
VectorMatches(req, hits) ==
  LET SameRepo(hit) == /\ DictGet(hit, "repo_owner", None) = req.owner
                       /\ DictGet(hit, "repo_name", None) = req.name
      kept == SelectSeq(hits, SameRepo)
  IN  [i \in 1..Len(kept) |->
         [pr_number |-> kept[i].pr_number, similarity_score |-> kept[i].similarity_score,
          method |-> "vector_search"]]

\* find_similar_prs, line 163
NotRemovedPaths(req) ==
  LET NotRemoved(fd) == fd.status # "removed"
      kept == SelectSeq(req.diff, NotRemoved)
  IN  [i \in 1..Len(kept) |-> kept[i].file_path]

\* find_similar_prs, lines 167-177: the other PRs of the repository
FileOverlapMatches(req, file_paths, rows) ==
  LET Other(row) == /\ row.pr_id # ""
                    /\ Contains(row.pr_id, req.owner \o "/" \o req.name \o "#")
                    /\ row.pr_number # 0
                    /\ row.pr_number # req.pr_number
      kept == SelectSeq(rows, Other)
  IN  [i \in 1..Len(kept) |->
         [pr_number |-> ToStr(kept[i].pr_number),
          similarity_score |-> (kept[i].common_files * ConfOne) \div Len(file_paths),
          method |-> "file_overlap"]]

GithubFallbackLimit == 5
GithubFallbackScore == 50
SimilarPrsLimit == 10

\* find_similar_prs, lines 191-197
GithubMatches(related_prs) ==
  LET kept == Take(related_prs, GithubFallbackLimit)
  IN  [i \in 1..Len(kept) |->
         [pr_number |-> kept[i], similarity_score |-> Pct(GithubFallbackScore),
          method |-> "github_api"]]

\* find_similar_prs, lines 202-208: the first entry of each pr_number
RECURSIVE UniquePrsFrom(_, _, _)
UniquePrsFrom(similar_prs, i, seen) ==
  IF i > Len(similar_prs) THEN <<>>
  ELSE IF similar_prs[i].pr_number \notin seen
         THEN <<similar_prs[i]>>
              \o UniquePrsFrom(similar_prs, i + 1, seen \cup {similar_prs[i].pr_number})
         ELSE UniquePrsFrom(similar_prs, i + 1, seen)

\* find_similar_prs, lines 211-213
TopSimilar(unique_prs) ==
  Take(Unscored(SortByScoreDesc([i \in 1..Len(unique_prs) |->
                                   <<unique_prs[i].similarity_score, unique_prs[i]>>])),
       SimilarPrsLimit)

find_similar_prs(req, embedder, qdrant, neo4j, has_github, github) ==
  LET file_paths == NotRemovedPaths(req)
      vector == TryExcept(IF embedder.raised \/ qdrant.raised THEN Raised
                          ELSE Returned(VectorMatches(req, qdrant.value)), <<>>)
      files == IF vector.raised THEN Raised
               ELSE TryExcept(IF file_paths = <<>> THEN vector
                              ELSE IF neo4j.raised THEN Raised
                              ELSE Returned(vector.value
                                            \o FileOverlapMatches(req, file_paths,
                                                                  neo4j.value)),
                              vector.value)
      fallback == IF files.raised THEN Raised
                  ELSE IF files.value = <<>> /\ has_github
                         THEN TryExcept(IF github.raised THEN Raised
                                        ELSE Returned(GithubMatches(github.value)), <<>>)
                         ELSE files
  IN  IF fallback.raised THEN Raised
      ELSE Returned(TopSimilar(UniquePrsFrom(fallback.value, 1, {})))

RelatedIssueRelevance == 70
HistoricalBugRelevance == 60

\* find_bug_patterns, lines 220-228
IssuePatterns(req) ==
  LET IsBug(issue) == \/ "bug" \in Range(issue.labels)
                      \/ Contains(Lower(issue.title), "error")
      kept == SelectSeq(req.related_issues, IsBug)
  IN  [i \in 1..Len(kept) |->
         [id |-> kept[i].id, title |-> kept[i].title, pattern |-> "bug_report",
          relevance |-> Pct(RelatedIssueRelevance), source |-> "related_issue"]]

\* find_bug_patterns, lines 243-251
HistoricalBugs(rows) ==
  [i \in 1..Len(rows) |->
     [id |-> rows[i].pr_id, title |-> DictGet(rows[i], "title", "Unknown"),
      pattern |-> "historical_bug", relevance |-> Pct(HistoricalBugRelevance),
      source |-> "neo4j"]]

find_bug_patterns(req, neo4j) ==
  LET bug_patterns == IssuePatterns(req)
  IN  TryExcept(IF req.diff = <<>> THEN Returned(bug_patterns)
                ELSE IF neo4j.raised THEN Raised
                ELSE Returned(bug_patterns \o HistoricalBugs(neo4j.value)),
                bug_patterns)

\* get_team_patterns: result["file_path"] raises KeyError on a row without it
get_team_patterns(req, neo4j) ==
  LET patterns == [preferred_patterns |-> <<>>, anti_patterns |-> <<>>,
                   recent_refactors |-> <<>>]
  IN  TryExcept(IF neo4j.raised THEN Raised
                ELSE IF \E i \in DOMAIN neo4j.value : "file_path" \notin DOMAIN neo4j.value[i]
                       THEN Raised
                ELSE Returned([patterns EXCEPT !.recent_refactors =
                                 [i \in 1..Len(neo4j.value) |-> neo4j.value[i].file_path]]),
                patterns)

\* what a direct call was given, what its collaborators did, and how it ended
HistoryCall(method, req, embedder, qdrant, neo4j, has_github, github, out) ==
  [method |-> method, request |-> req, embedder |-> embedder, qdrant |-> qdrant,
   neo4j |-> neo4j, has_github |-> has_github, github |-> github, out |-> out]

\* a collaborator the method does not call
NotCalled == Returned(<<>>)

StorePrData ==
  /\ \E req \in HistoryRequests, neo4j \in Outcomes({<<>>}), embedder \in Outcomes({<<>>}),
        qdrant \in Outcomes({<<>>}) :
       hist' = HistoryCall("store_pr_data", req, embedder, qdrant, neo4j, FALSE, NotCalled,
                           store_pr_data(req, neo4j, embedder, qdrant))
  /\ UNCHANGED <<analyzerVars, learnVars, collectorVars, reviewVars>>

FindSimilarPrs ==
  /\ \E req \in HistoryRequests, embedder \in Outcomes({<<>>}),
        qdrant \in Outcomes(QdrantHits), neo4j \in Outcomes(RelatedRows),
        has_github \in BOOLEAN, github \in Outcomes(GithubRelated) :
       /\ ~has_github => github = NotCalled
       /\ hist' = HistoryCall("find_similar_prs", req, embedder, qdrant, neo4j, has_github,
                              github,
                              find_similar_prs(req, embedder, qdrant, neo4j, has_github,
                                               github))
  /\ UNCHANGED <<analyzerVars, learnVars, collectorVars, reviewVars>>

FindBugPatterns ==
  /\ \E req \in HistoryRequests, neo4j \in Outcomes(BugRows) :
       hist' = HistoryCall("find_bug_patterns", req, NotCalled, NotCalled, neo4j, FALSE,
                           NotCalled, find_bug_patterns(req, neo4j))
  /\ UNCHANGED <<analyzerVars, learnVars, collectorVars, reviewVars>>

GetTeamPatterns ==
  /\ \E req \in HistoryRequests, neo4j \in Outcomes(TeamRows) :
       hist' = HistoryCall("get_team_patterns", req, NotCalled, NotCalled, neo4j, FALSE,
                           NotCalled, get_team_patterns(req, neo4j))
  /\ UNCHANGED <<analyzerVars, learnVars, collectorVars, reviewVars>>

\* a HistoricalAnalyzer after __init__, no method called yet
InitHistory ==
  /\ HistoryIdle
  /\ learning_patterns = EmptyDict
  /\ pc = "Idle"
  /\ min_confidence = Pct(DefaultMinConfidence)
  /\ max_results = DefaultMaxResults
  /\ enable_historical = TRUE
  /\ enable_learning = TRUE
  /\ team_patterns = JsonObject
  /\ request = None
  /\ analyzer_idx = 1
  /\ produced = <<>>
  /\ all_results = <<>>
  /\ historical_data = EmptyDict
  /\ learn_idx = 1
  /\ calibrations = <<>>
  /\ adjusted_results = <<>>
  /\ filtered_results = <<>>
  /\ scored_results = <<>>
  /\ prioritized_results = <<>>
  /\ returned = None
  /\ reprioritized = None
  /\ cal_result = None
  /\ cal_stats = EmptyDict
  /\ cal_ledger = None
  /\ cal_out = None
  /\ deadline_fired_at = NoDeadline
  /\ AnalyzersIdle
  /\ LearningIdle
  /\ CollectorIdle

NextHistory ==
  \/ StorePrData
  \/ FindSimilarPrs
  \/ FindBugPatterns
  \/ GetTeamPatterns

SpecHistory == InitHistory /\ [][NextHistory]_vars


\* ================================================================== claims

\* what an analyzer put into a finding; enrichment and calibration leave it
Core(f) ==
  <<f.category, f.priority, f.file_path, f.line_start, f.title, f.description>>
Cores(seq) == [i \in DOMAIN seq |-> Core(seq[i])]

\* the findings of the analyzers that returned, in registration order
RECURSIVE MergedFrom(_, _)
MergedFrom(outcomes, i) ==
  IF i > Len(outcomes) THEN <<>>
  ELSE (IF outcomes[i].raised THEN <<>> ELSE outcomes[i].value) \o MergedFrom(outcomes, i + 1)
Merged == MergedFrom(produced, 1)

AfterAnalyzers == {"AnalyzersRun", "Enriched", "Calibrated", "Filtered", "Prioritized", "Done"}

\* C1: fault isolation.  When an analyzer raised, review() still ran every
\* other analyzer and went on: after the loop the working list holds exactly
\* the findings of the analyzers that returned, in order, and every finding
\* review() returns is one of them.
C1_FaultIsolation ==
  /\ pc \in AfterAnalyzers =>
       /\ Len(produced) = NumAnalyzers
       /\ Cores(all_results) = Cores(Merged)
  /\ pc = "Done" => \A i \in DOMAIN returned : Core(returned[i]) \in Range(Cores(Merged))

C1_Witness ==
  /\ pc = "Done"
  /\ produced[1].raised
  /\ \E k \in 2..NumAnalyzers : ~produced[k].raised /\ produced[k].value # <<>>
  /\ returned # <<>>

\* C2: no returned finding is below min_confidence, and the confidence that
\* is compared is the calibrated one (the finding as _apply_learning left it).
C2_ConfidenceFilter ==
  pc = "Done" =>
    \A i \in DOMAIN returned :
      /\ returned[i].confidence >= min_confidence
      /\ returned[i] \in Range(all_results)

\* a finding the analyzer reported above the threshold was calibrated below
\* it and dropped, another was calibrated and returned
C2_Witness ==
  /\ pc = "Done"
  /\ \E i \in DOMAIN all_results :
       /\ Merged[i].confidence >= min_confidence
       /\ all_results[i].confidence < min_confidence
  /\ \E i \in DOMAIN all_results :
       /\ Merged[i].confidence # all_results[i].confidence
       /\ all_results[i] \in Range(returned)

\* the signature the claims speak of: file path, line_start, category and the
\* first 50 characters of the title
ClaimSignature(f) ==
  <<f.file_path, f.line_start, f.category, SubSeq(f.title, 1, Min(50, Len(f.title)))>>

NoTwoWithSameSignature(seq) ==
  \A i, j \in DOMAIN seq : ClaimSignature(seq[i]) = ClaimSignature(seq[j]) => i = j

\* C3: neither the list prioritize() returns nor the list review() returns
\* holds two findings with the same signature.
C3_UniqueSignatures ==
  /\ pc \in {"Prioritized", "Done", "Reprioritized"} => NoTwoWithSameSignature(prioritized_results)
  /\ pc = "Done" => NoTwoWithSameSignature(returned)

\* the input held two findings that agree on the first 50 characters of the
\* title only, and more than one finding was returned
C3_Witness ==
  /\ pc = "Done"
  /\ \E i, j \in DOMAIN filtered_results :
       /\ i # j
       /\ ClaimSignature(filtered_results[i]) = ClaimSignature(filtered_results[j])
       /\ filtered_results[i].title # filtered_results[j].title
  /\ Len(returned) > 1

InUnit(c) == 0 <= c /\ c <= ConfOne

\* C4: the confidence adjust_confidence returns, and every confidence
\* _apply_learning stores, lies in [0, 1], whatever the stats and the table.
C4_ConfidenceInUnit ==
  /\ pc = "CalDone" => InUnit(cal_out)
  /\ \A i \in DOMAIN adjusted_results : InUnit(adjusted_results[i].confidence)

\* the clamp acted: a multiplier above one pushed the raw value over 1
C4_Witness ==
  /\ pc = "CalDone"
  /\ cal_out = ConfOne
  /\ cal_result.confidence < ConfOne
  /\ "bug_medium" \in DOMAIN learning_patterns

\* the index of the first occurrence of x in seq
FirstIndex(seq, x) == CHOOSE i \in DOMAIN seq : seq[i] = x /\ \A j \in 1..(i - 1) : seq[j] # x

\* C5: prioritize returns the findings by non-increasing score, and findings
\* of equal score in the order they had in the input.
C5_SortedStable ==
  pc \in {"Prioritized", "Done", "Reprioritized"} =>
    \A i, j \in DOMAIN prioritized_results :
      i < j =>
        /\ _calculate_score(prioritized_results[i]) >= _calculate_score(prioritized_results[j])
        /\ _calculate_score(prioritized_results[i]) = _calculate_score(prioritized_results[j])
             => FirstIndex(filtered_results, prioritized_results[i])
                  < FirstIndex(filtered_results, prioritized_results[j])

\* two findings of equal score came out in input order, behind a finding
\* that stood after them in the input
C5_Witness ==
  /\ pc = "Prioritized"
  /\ Len(prioritized_results) = 3
  /\ _calculate_score(prioritized_results[2]) = _calculate_score(prioritized_results[3])
  /\ prioritized_results[1] = filtered_results[3]

\* the weights the specification lists
SpecCategoryWeight(c) ==
  CASE c = "security" -> 10 [] c = "bug" -> 8 [] c = "business_logic" -> 7
    [] c = "architecture" -> 6 [] c = "performance" -> 5 [] c = "test" -> 4
    [] c = "code_quality" -> 3 [] c = "style" -> 1
SpecPriorityWeight(p) ==
  CASE p = "critical" -> 10 [] p = "high" -> 7 [] p = "medium" -> 4
    [] p = "low" -> 2 [] p = "info" -> 1

\* C6: the score is category weight x priority weight x confidence, x 1.5 on
\* a critical file, x 1.2 for security (both sides are times ConfOne * 100);
\* a finding on auth/login.py scores at least 1.5 times the same finding on
\* utils/helpers.py.
C6_ScoreFormula ==
  \A i \in DOMAIN scored_results :
    LET score == scored_results[i][1]
        f == scored_results[i][2]
    IN  /\ score * ScoreDen =
             SpecCategoryWeight(f.category) * SpecPriorityWeight(f.priority) * f.confidence
               * (IF _is_critical_file(f.file_path) THEN 15 ELSE 10)
               * (IF f.category = "security" THEN 12 ELSE 10)
        /\ f.file_path = "auth/login.py" =>
             2 * score >= 3 * _calculate_score([f EXCEPT !.file_path = "utils/helpers.py"])

C6_Witness ==
  /\ pc = "Prioritized"
  /\ Len(scored_results) = 1
  /\ scored_results[1][2].file_path = "auth/login.py"
  /\ scored_results[1][2].category = "security"
  /\ scored_results[1][1] > 0

SevenKeywords == {"auth", "payment", "security", "secret", "admin", "permission", "access"}
EightKeywords == SevenKeywords \cup {"encrypt"}

HasKeyword(path, keywords) == \E k \in keywords : Contains(Lower(path), k)

\* C7 as stated: a scored finding got the critical-file boost exactly when
\* its path holds one of the seven keywords auth, payment, security, secret,
\* admin, permission, access.
C7_SevenKeywords ==
  \A i \in DOMAIN scored_results :
    _is_critical_file(scored_results[i][2].file_path)
      <=> HasKeyword(scored_results[i][2].file_path, SevenKeywords)

\* C7 amended: a scored finding got the critical-file boost exactly when its
\* path holds, in any letter case, one of the eight keywords auth, payment,
\* security, encrypt, secret, admin, permission, access.
C7_EightKeywords ==
  \A i \in DOMAIN scored_results :
    LET score == scored_results[i][1]
        f == scored_results[i][2]
        unboosted == CATEGORY_WEIGHTS[f.category] * PRIORITY_WEIGHTS[f.priority]
                       * f.confidence * 2 * (IF f.category = "security" THEN 6 ELSE 5)
    IN  /\ _is_critical_file(f.file_path) <=> HasKeyword(f.file_path, EightKeywords)
        /\ f.confidence > 0 =>
             (2 * score = 3 * unboosted <=> HasKeyword(f.file_path, EightKeywords))
        /\ ~HasKeyword(f.file_path, EightKeywords) => score = unboosted

\* a path that holds only the eighth keyword, in capitals, was boosted
C7_Witness ==
  /\ pc = "Prioritized"
  /\ Len(scored_results) = 1
  /\ scored_results[1][2].file_path = "lib/Encrypt.py"
  /\ scored_results[1][2].confidence > 0
  /\ 2 * scored_results[1][1] =
       3 * CATEGORY_WEIGHTS[scored_results[1][2].category]
         * PRIORITY_WEIGHTS[scored_results[1][2].priority]
         * scored_results[1][2].confidence * 2
         * (IF scored_results[1][2].category = "security" THEN 6 ELSE 5)

\* C8: prioritize applied to its own output returns that output unchanged.
C8_Idempotent ==
  pc = "Reprioritized" => reprioritized = prioritized_results

\* the first call removed a duplicate and reordered, the second changed nothing
C8_Witness ==
  /\ pc = "Reprioritized"
  /\ Len(prioritized_results) = 2
  /\ Len(filtered_results) = 3
  /\ prioritized_results[1] = filtered_results[3]

\* i is the finding prioritize must keep among those with its signature: none
\* of them scores higher, and none of equal score stands before it
IsBestOfSignature(seq, i) ==
  \A k \in DOMAIN seq :
    ClaimSignature(seq[k]) = ClaimSignature(seq[i]) =>
      \/ _calculate_score(seq[k]) < _calculate_score(seq[i])
      \/ _calculate_score(seq[k]) = _calculate_score(seq[i]) /\ i <= k

\* C9: of the input findings with one signature prioritize keeps exactly one,
\* the highest scored, the earliest of equally scored ones.
C9_KeepsBest ==
  pc \in {"Prioritized", "Done", "Reprioritized"} =>
    /\ \A i \in DOMAIN filtered_results :
         Cardinality({j \in DOMAIN prioritized_results :
                        ClaimSignature(prioritized_results[j]) = ClaimSignature(filtered_results[i])}) = 1
    /\ \A j \in DOMAIN prioritized_results :
         \E i \in DOMAIN filtered_results :
           /\ filtered_results[i] = prioritized_results[j]
           /\ IsBestOfSignature(filtered_results, i)

\* three findings with one signature, the last scored highest and was kept;
\* the first two differ in the description only
C9_Witness ==
  /\ pc = "Prioritized"
  /\ Len(filtered_results) = 3
  /\ Len(prioritized_results) = 1
  /\ prioritized_results[1] = filtered_results[3]
  /\ filtered_results[1] # filtered_results[2]
  /\ [filtered_results[1] EXCEPT !.description = "x"] = [filtered_results[2] EXCEPT !.description = "x"]


AddedLines(fd) ==
  {fd.diff[i] : i \in {k \in DOMAIN fd.diff :
                         StartsWith(fd.diff[k], "+") /\ ~StartsWith(fd.diff[k], "+++")}}

\* the file diff adds a line that assigns a quoted literal to password
AddsPasswordLiteral(fd) ==
  \E line \in AddedLines(fd) :
    Contains(line, "password = \"") \/ Contains(line, "password = '")

\* the file diff adds an exception handler: an except clause or a catch block
AddsExceptionHandler(fd) ==
  \E line \in AddedLines(fd) : Contains(line, "except") \/ Contains(line, "catch")

\* the file diff adds a bare except: or an empty catch block on one line
AddsBareOrOneLineHandler(fd) ==
  \E line \in AddedLines(fd) :
    Contains(line, "except:") \/ (Contains(line, "catch (") /\ Contains(line, "{}"))

\* PatternMatcher reads the file: it is not removed and has a language that
\* is not binary
Analyzable(fd) == fd.status # "removed" /\ fd.language \notin {NoLanguage, "binary"}

IsSecretFinding(f, path) ==
  f.category = "security" /\ f.file_path = path
    /\ f.title = "Potential hardcoded secret detected"

IsHandlerFinding(f, path) ==
  f.category = "bug" /\ f.file_path = path
    /\ f.title \in {"Empty catch block may hide errors",
                    "Bare except clause catches all exceptions"}

PatternMatcherReturned ==
  pc \in AfterAnalyzers /\ ~produced[1].raised

ReportsSecretAndHandler(results, path) ==
  /\ Len(results) >= 2
  /\ \E i \in DOMAIN results : IsSecretFinding(results[i], path)
  /\ \E i \in DOMAIN results : IsHandlerFinding(results[i], path)

SecretRankedAboveHandler ==
  pc = "Done" =>
    \A i, j \in DOMAIN returned :
      /\ IsSecretFinding(returned[i], returned[i].file_path)
      /\ IsHandlerFinding(returned[j], returned[i].file_path)
      /\ returned[i].confidence = returned[j].confidence
      => i < j

StatsGiven(total, ratio) ==
  /\ DOMAIN cal_stats = {"total_feedback", "positive_ratio"}
  /\ cal_stats.total_feedback = total
  /\ cal_stats.positive_ratio = ratio

\* the multiplier the learning table holds for a finding, in hundredths
ClaimMultiplier(f, table) ==
  IF (f.category \o "_" \o f.priority) \in DOMAIN table
    THEN table[f.category \o "_" \o f.priority].confidence_multiplier
    ELSE 100

\* C11 as stated: with positive_ratio 1.0 and total_feedback 10 the returned
\* confidence is strictly greater than the finding's confidence, with
\* positive_ratio 0.0 strictly smaller, for every finding.
C11_StrictlyMoves ==
  pc = "CalDone" =>
    /\ StatsGiven(10, ConfOne) => cal_out > cal_result.confidence
    /\ StatsGiven(10, 0) => cal_out < cal_result.confidence

\* C11 amended: for a finding whose table multiplier is 1.0 (no entry, or an
\* entry of 1.0), positive_ratio 1.0 with total_feedback 10 returns
\* min(1, confidence + 0.1), strictly greater unless the confidence is 1.0
\* already, and positive_ratio 0.0 returns max(0, confidence - 0.1), strictly
\* smaller unless the confidence is 0.0; a saturated confidence is returned
\* unchanged.
C11_StrictUnlessSaturated ==
  pc = "CalDone" /\ ClaimMultiplier(cal_result, learning_patterns) = 100 =>
    LET c == cal_result.confidence
    IN  /\ StatsGiven(10, ConfOne) =>
             /\ cal_out = (IF c + ConfOne \div 10 > ConfOne THEN ConfOne ELSE c + ConfOne \div 10)
             /\ c < ConfOne => cal_out > c
             /\ c = ConfOne => cal_out = c
        /\ StatsGiven(10, 0) =>
             /\ cal_out = (IF c - ConfOne \div 10 < 0 THEN 0 ELSE c - ConfOne \div 10)
             /\ c > 0 => cal_out < c
             /\ c = 0 => cal_out = c

\* confidence 0.5 with all-positive feedback became 0.6
C11_Witness ==
  /\ pc = "CalDone"
  /\ StatsGiven(10, ConfOne)
  /\ ClaimMultiplier(cal_result, learning_patterns) = 100
  /\ cal_result.confidence = (50 * ConfOne) \div 100
  /\ cal_out = (60 * ConfOne) \div 100

\* the stats adjust_confidence worked with: the argument, or what the ledger
\* holds for the finding
ClaimNoStats ==
  IF DOMAIN cal_stats = {}
    THEN ~cal_ledger.available \/ cal_ledger.total_count = 0
    ELSE "total_feedback" \notin DOMAIN cal_stats \/ cal_stats.total_feedback = 0

\* the positive ratio of these stats (0.5 when the argument carries none)
ClaimRatio ==
  IF DOMAIN cal_stats = {}
    THEN (cal_ledger.positive_count * ConfOne) \div cal_ledger.total_count
    ELSE IF "positive_ratio" \in DOMAIN cal_stats THEN cal_stats.positive_ratio
    ELSE ConfOne \div 2

\* confidence x multiplier + (positive_ratio - 0.5) x 0.2, clamped to [0, 1]
ClaimAdjusted(f, ratio, table) ==
  LET raw == (f.confidence * ClaimMultiplier(f, table)) \div 100
               + ((ratio - ConfOne \div 2) * 2) \div 10
  IN  IF raw < 0 THEN 0 ELSE IF raw > ConfOne THEN ConfOne ELSE raw

\* C12: adjust_confidence returns the finding's confidence when there are no
\* stats for it (none, empty, or total_feedback = 0), and otherwise
\* clamp01(confidence x multiplier + (positive_ratio - 0.5) x 0.2) with the
\* multiplier of the table entry category_priority, or 1.0 without an entry.
C12_AdjustmentFormula ==
  pc = "CalDone" =>
    cal_out = IF ClaimNoStats THEN cal_result.confidence
              ELSE ClaimAdjusted(cal_result, ClaimRatio, learning_patterns)

\* a table entry of 0.7 and all-positive feedback: 0.5 x 0.7 + 0.1 = 0.45
C12_Witness ==
  /\ pc = "CalDone"
  /\ StatsGiven(10, ConfOne)
  /\ ClaimMultiplier(cal_result, learning_patterns) = 70
  /\ cal_result.confidence = (50 * ConfOne) \div 100
  /\ cal_out = (45 * ConfOne) \div 100


\* C13: review() never raises because an analyzer failed or a collaborator
\* (historical store, feedback ledger, team-pattern source) is unavailable or
\* fails, and when the historical context could not be gathered the findings
\* carry no added evidence.
C13_NeverRaises ==
  /\ pc # "Raised"
  /\ pc \in {"Enriched", "Calibrated", "Filtered", "Prioritized", "Done"}
       /\ enable_historical /\ DOMAIN historical_data = {}
       => \A i \in DOMAIN all_results : all_results[i].evidence = <<>>

\* a step of the loop of _apply_learning
LearnTurn == pc = "Enriched" /\ learn_idx' = learn_idx + 1

\* C14: each turn of _apply_learning appends the finding it handled to the
\* output, at its input position, with the fields the analyzer gave it; a
\* finding whose calibration raised keeps its confidence, the turn touches no
\* other finding, and the loop goes on: the list handed back has the length
\* and the findings of the input, every one of them handled.
C14_FailureKeepsFinding ==
  [][ /\ LearnTurn =>
           /\ Len(adjusted_results') = learn_idx
           /\ Len(calibrations') = learn_idx
           /\ Core(adjusted_results'[learn_idx]) = Core(all_results[learn_idx])
           /\ adjusted_results'[learn_idx].evidence = all_results[learn_idx].evidence
           /\ ~calibrations'[learn_idx] =>
                adjusted_results'[learn_idx].confidence = all_results[learn_idx].confidence
           /\ \A j \in 1..(learn_idx - 1) : adjusted_results'[j] = adjusted_results[j]
           /\ \A j \in DOMAIN all_results : j # learn_idx => all_results'[j] = all_results[j]
      /\ pc = "Enriched" /\ pc' = "Calibrated" /\ enable_learning =>
           /\ all_results' = adjusted_results
           /\ Len(all_results') = Len(all_results)
           /\ Len(calibrations) = Len(all_results)
           /\ Cores(all_results') = Cores(all_results)
    ]_vars

\* the calibration of the first finding raised, the second finding was
\* calibrated to another confidence, and both were handed back
C14_Witness ==
  /\ pc = "Calibrated"
  /\ calibrations = <<FALSE, TRUE>>
  /\ Len(all_results) = 2
  /\ all_results[1].confidence_level = "as_built"
  /\ all_results[2].confidence_level # "as_built"

\* C15: review() does not return normally for a request with an empty diff set.
C15_EmptyDiffRejected ==
  pc = "Done" => request.diff # <<>>


\* the order of the stages of one review() call, with Analyzing for the turns
\* of the analyzer loop
StageOrder ==
  {<<"Idle", "Init">>, <<"Init", "TeamContextLoaded">>, <<"Init", "Raised">>,
   <<"TeamContextLoaded", "Analyzing">>, <<"Analyzing", "AnalyzersRun">>,
   <<"AnalyzersRun", "Enriched">>, <<"Enriched", "Calibrated">>,
   <<"Calibrated", "Filtered">>, <<"Filtered", "Prioritized">>, <<"Prioritized", "Done">>}

IsPrefix(a, b) == Len(a) <= Len(b) /\ SubSeq(b, 1, Len(a)) = a

\* one step keeps the stage order, touches no finding with evidence or a
\* ledger id before the analyzer loop has ended, and hands each stage the list
\* of the stage before it
StagesInOrder ==
  /\ pc' # pc => <<pc, pc'>> \in StageOrder
  /\ pc' \in {"Init", "TeamContextLoaded", "Analyzing", "AnalyzersRun"} =>
       \A i \in DOMAIN all_results' :
         all_results'[i].evidence = <<>> /\ all_results'[i].analysis_result_id = <<>>
  /\ pc' = "AnalyzersRun" => Len(produced') = NumAnalyzers
  /\ pc = "AnalyzersRun" /\ pc' = "Enriched" => Cores(all_results') = Cores(all_results)
  /\ pc = "Enriched" /\ pc' = "Calibrated" => Cores(all_results') = Cores(all_results)
  /\ pc = "Calibrated" /\ pc' = "Filtered" =>
       filtered_results' = SelectSeq(all_results, LAMBDA r : r.confidence >= min_confidence)
  /\ pc = "Filtered" /\ pc' = "Prioritized" =>
       Range(prioritized_results') \subseteq Range(filtered_results)
  /\ pc = "Prioritized" /\ pc' = "Done" => IsPrefix(returned', prioritized_results)

\* every finding of the working list went through calibration
AllCalibrated == \A i \in DOMAIN all_results : all_results[i].analysis_result_id # <<>>

\* C16 as stated: the stages follow each other in the fixed order, each on the
\* list of the one before, no finding is enriched or calibrated before the
\* analyzer loop has ended, and no stage is skipped: at Done every finding
\* has been calibrated.
C16_NoStageSkipped ==
  /\ [][StagesInOrder]_vars
  /\ [](pc = "Done" => AllCalibrated)

\* C16 amended: the same order, with enrichment run only when
\* enable_historical and calibration only when enable_learning; a disabled
\* stage hands the list on unchanged, an enabled calibration handles every
\* finding.
C16_StagesInOrder ==
  /\ [][ /\ StagesInOrder
         /\ pc = "AnalyzersRun" /\ pc' = "Enriched" /\ ~enable_historical =>
              all_results' = all_results
         /\ pc = "Enriched" /\ pc' = "Calibrated" /\ ~enable_learning =>
              all_results' = all_results
     ]_vars
  /\ [](pc \in {"Calibrated", "Filtered", "Prioritized", "Done"} /\ enable_learning =>
          AllCalibrated /\ Len(calibrations) = Len(all_results))

\* a review with calibration disabled returned an enriched, uncalibrated finding
C16_Witness ==
  /\ pc = "Done"
  /\ ~enable_learning
  /\ enable_historical
  /\ Len(returned) > 0
  /\ returned[1].evidence # <<>>
  /\ returned[1].analysis_result_id = <<>>

\* C17: review() returns the first max_results findings of the prioritized
\* list, so at most max_results of them, and no finding that was cut off
\* scores higher than a returned one.
C17_Truncation ==
  pc = "Done" =>
    /\ Len(returned) <= max_results
    /\ Len(returned) = (IF Len(prioritized_results) < max_results
                          THEN Len(prioritized_results) ELSE max_results)
    /\ \A i \in DOMAIN returned : returned[i] = prioritized_results[i]
    /\ \A i \in DOMAIN returned :
         \A j \in (Len(returned) + 1)..Len(prioritized_results) :
           _calculate_score(prioritized_results[j]) <= _calculate_score(returned[i])

\* max_results = 1 cut off two findings, one of them scored lower
C17_Witness ==
  /\ pc = "Done"
  /\ max_results = 1
  /\ Len(prioritized_results) = 3
  /\ Len(returned) = 1
  /\ _calculate_score(prioritized_results[3]) < _calculate_score(returned[1])

\* C18: while review() runs and after it has returned, the request is the
\* request the caller passed: no step changes a field of it.
C18_RequestImmutable ==
  [][pc # "Idle" => request' = request]_vars

\* every field of a finding but those named is left as it was
FieldsKept(before, after, changed) ==
  /\ DOMAIN after = DOMAIN before
  /\ \A k \in DOMAIN before \ changed : after[k] = before[k]

\* what the stages other than calibration do to the findings: the analyzer
\* loop only appends, enrichment only appends evidence, the filter, the
\* Prioritizer and the truncation hand on findings as they are
OtherStagesKeepFields ==
  /\ pc \in {"TeamContextLoaded", "Analyzing"} => IsPrefix(all_results, all_results')
  /\ pc = "AnalyzersRun" =>
       /\ Len(all_results') = Len(all_results)
       /\ \A i \in DOMAIN all_results :
            /\ FieldsKept(all_results[i], all_results'[i], {"evidence"})
            /\ IsPrefix(all_results[i].evidence, all_results'[i].evidence)
  /\ pc = "Calibrated" => Range(filtered_results') \subseteq Range(all_results)
  /\ pc = "Filtered" => Range(prioritized_results') \subseteq Range(filtered_results)
  /\ pc = "Prioritized" /\ pc' = "Done" => Range(returned') \subseteq Range(prioritized_results)

\* C19 as stated: enrichment only appends evidence, calibration changes the
\* confidence and nothing else, the filter and the Prioritizer change nothing.
C19_OnlyEvidenceAndConfidence ==
  [][ /\ OtherStagesKeepFields
      /\ pc = "Enriched" =>
           /\ Len(all_results') = Len(all_results)
           /\ \A i \in DOMAIN all_results :
                FieldsKept(all_results[i], all_results'[i], {"confidence"})
    ]_vars

\* C19 amended: calibration changes the confidence, sets confidence_level to
\* the band of the new confidence when the confidence changed, and stores an
\* analysis_result_id in a finding that has none; all else as stated.
C19_CalibrationAlsoSetsIdAndLevel ==
  [][ /\ OtherStagesKeepFields
      /\ pc = "Enriched" =>
           /\ Len(all_results') = Len(all_results)
           /\ \A i \in DOMAIN all_results :
                LET before == all_results[i]
                    after == all_results'[i]
                IN  /\ FieldsKept(before, after,
                                  {"confidence", "confidence_level", "analysis_result_id"})
                    /\ before.analysis_result_id # <<>> =>
                         after.analysis_result_id = before.analysis_result_id
                    /\ after.confidence = before.confidence =>
                         after.confidence_level = before.confidence_level
                    /\ after.confidence # before.confidence =>
                         after.confidence_level = ConfidenceLevel(after.confidence)
    ]_vars

\* a returned finding was enriched and calibrated to another confidence
C19_Witness ==
  /\ pc = "Done"
  /\ \E i \in DOMAIN returned :
       /\ returned[i].evidence # <<>>
       /\ returned[i].analysis_result_id # <<>>
       /\ returned[i].confidence_level # "as_built"

\* the findings of the analyzers that had returned when the deadline passed
FinalizedAtDeadline ==
  Range(Cores(MergedFrom(SubSeq(produced, 1, deadline_fired_at), 1)))

\* C20: when the caller's deadline passed during review() and an analyzer had
\* completed by then, review() hands back the findings finalized by then: it
\* returns no finding of an analyzer it called after the deadline.
C20_ReturnsFinalizedAtDeadline ==
  pc = "Done" /\ deadline_fired_at >= 0 /\ FinalizedAtDeadline # {} =>
    \A i \in DOMAIN returned : Core(returned[i]) \in FinalizedAtDeadline


\* ---------------------------------------------------------------- C21
\* C21: analyze() reads but never writes the analyzer's state, and a call that
\* has returned has returned what the same call returns when it runs alone,
\* whatever calls ran before it or were interleaved with it.
ReturnsAsAlone ==
  \A s \in DOMAIN calls :
    calls[s].state = "returned" =>
      calls[s].returned \in AloneReturns(calls[s].analyzer, calls[s].request, matcher_patterns)

C21_Stateless ==
  /\ [][matcher_patterns' = matcher_patterns]_vars
  /\ []ReturnsAsAlone

\* a PatternMatcher call has returned findings while another PatternMatcher
\* call for another request is half-way through its files
C21_Witness ==
  \E s, t \in DOMAIN calls :
    /\ s # t
    /\ calls[s].state = "returned" /\ calls[s].analyzer = "PatternMatcher"
    /\ calls[s].returned # <<>>
    /\ calls[t].state = "running" /\ calls[t].analyzer = "PatternMatcher"
    /\ calls[t].request # calls[s].request
    /\ calls[t].step = 2 /\ Len(calls[t].request.diff) = 2
    /\ calls[t].results # <<>>

\* ---------------------------------------------------------------- C22
\* out holds exactly the findings of results with confidence >= m, in the
\* order of results
IsFilterOf(out, results, m) ==
  LET keep == {j \in DOMAIN results : results[j].confidence >= m}
  IN  /\ Len(out) = Cardinality(keep)
      /\ \A i \in DOMAIN out :
           \E j \in keep : out[i] = results[j] /\ Cardinality({k \in keep : k < j}) = i - 1

SpecFloor(name) == IF name = "SecurityScanner" THEN Pct(60) ELSE Pct(50)

\* C22: every finding analyze() returns has at least the confidence of the
\* analyzer's floor (0.6 for SecurityScanner, 0.5 for the others), custom
\* patterns included, and the list returned is exactly the findings built with
\* confidence >= the floor, in the order they were built.
C22_FloorAndFilter ==
  /\ [](\A s \in DOMAIN calls :
          calls[s].state = "returned" =>
            \A i \in DOMAIN calls[s].returned :
              calls[s].returned[i].confidence >= SpecFloor(calls[s].analyzer))
  /\ [][\A s \in DOMAIN calls :
          (calls[s].state = "running" /\ calls'[s].state = "returned") =>
            IsFilterOf(calls'[s].returned, calls[s].results, SpecFloor(calls[s].analyzer))]_vars

\* PatternMatcher with a custom pattern under the floor has matched it and
\* returned the other findings
C22_Witness ==
  \E s \in DOMAIN calls :
    /\ calls[s].state = "returned" /\ calls[s].analyzer = "PatternMatcher"
    /\ calls[s].returned # <<>>
    /\ \E f \in Range(PatternMatcherFrom(calls[s].request.diff, matcher_patterns, 1)) :
         f.confidence < Pct(50)

\* ---------------------------------------------------------------- C25
IsMissingTestFinding(f) ==
  /\ f.title = "No corresponding test file detected"
  /\ f.category = "test" /\ f.priority = "medium" /\ f.confidence = Pct(60)

\* another diff of the request is a test file named after the file
HasSameNamedTest(req, i) ==
  \E j \in DOMAIN req.diff :
    /\ j # i
    /\ Contains(Lower(req.diff[j].file_path), "test")
    /\ has_test(req.diff[i].file_path, {req.diff[j].file_path})

ShouldReportMissingTest(req, i) ==
  /\ req.diff[i].status # "removed"
  /\ ~Contains(Lower(req.diff[i].file_path), "test")
  /\ req.diff[i].changes > 10
  /\ ~HasSameNamedTest(req, i)

\* C25: TestGapAnalyzer reports the missing-test finding for exactly the
\* non-removed, non-test files with more than 10 changed lines that have no
\* same-named test file among the other diffs of the request.
C25_MissingTestsReported ==
  \A s \in DOMAIN calls :
    (calls[s].state = "returned" /\ calls[s].analyzer = "TestGapAnalyzer") =>
      {f.file_path : f \in {g \in Range(calls[s].returned) : IsMissingTestFinding(g)}}
        = {calls[s].request.diff[i].file_path :
             i \in {j \in DOMAIN calls[s].request.diff :
                      ShouldReportMissingTest(calls[s].request, j)}}


\* ---------------------------------------------------------------- C23
LastCallWas(ops) == DOMAIN learn_call # {} /\ learn_call.op \in ops

\* C23: every category_feedback pattern of the learning table comes from an
\* aggregate with count >= 3 and has a multiplier in [0.7, 1.3]; the patterns a
\* call returns have the multiplier base + min(count/10, 0.2) for positive,
\* base - min(count/10, 0.2) for negative and the base value for the others.
C23_TrustedAndCapped ==
  /\ \A id \in DOMAIN learning_patterns :
       learning_patterns[id].pattern_type = "category_feedback" =>
         /\ learning_patterns[id].feedback_count >= 3
         /\ 70 <= learning_patterns[id].confidence_multiplier
         /\ learning_patterns[id].confidence_multiplier <= 130
  /\ (LastCallWas({"analyze_feedback_patterns"}) /\ ~learn_call.failed) =>
       LET rows == SelectSeq(learn_call.aggregates, LAMBDA row : row.count >= 3)
       IN  /\ Len(learn_call.out) = Len(rows)
           /\ \A k \in DOMAIN rows :
                LET part == learn_call.out[k].confidence_multiplier
                              - base_multiplier(rows[k].feedback_type)
                    capped == IF rows[k].count * 10 < 20 THEN rows[k].count * 10 ELSE 20
                IN  /\ learn_call.out[k].feedback_count = rows[k].count
                    /\ part = CASE rows[k].feedback_type = "positive" -> capped
                                [] rows[k].feedback_type = "negative" -> 0 - capped
                                [] OTHER -> 0

\* a call has stored a positive, a negative or an ignored pattern from an
\* aggregate of three, and the graph also held an aggregate of two
C23_Witness ==
  /\ LastCallWas({"analyze_feedback_patterns"})
  /\ ~learn_call.failed
  /\ \E k \in DOMAIN learn_call.aggregates : learn_call.aggregates[k].count = 2
  /\ \E k \in DOMAIN learn_call.out :
       /\ learn_call.out[k].feedback_count = 3
       /\ learn_call.out[k].confidence_multiplier = 130
       /\ learn_call.out[k].pattern_id \in DOMAIN learning_patterns

\* ---------------------------------------------------------------- C24
ProbeStats == [total_feedback |-> 10, positive_ratio |-> ConfOne \div 2]
Probe(category, priority, confidence) ==
  Finding(category, priority, confidence, "src/a.py", 3, "Title", "d")

\* C24: learn_from_false_positives adds one false_positive pattern with
\* multiplier 0.7 after which adjust_confidence returns less for a finding of
\* the category than before, learn_from_false_negatives one false_negative
\* pattern with multiplier 1.2 after which it returns more, and the patterns
\* stored before are unchanged.
C24_FalseLearningMovesConfidence ==
  LastCallWas({"learn_from_false_positives", "learn_from_false_negatives"}) =>
    LET pattern == learn_call.out[1]
        down == learn_call.op = "learn_from_false_positives"
        probe == Probe(pattern.category, "medium", Pct(65))
        before == adjust_confidence(probe, ProbeStats, LedgerUnavailable, learn_call.before)
        after == adjust_confidence(probe, ProbeStats, LedgerUnavailable, learning_patterns)
    IN  /\ pattern.pattern_type = IF down THEN "false_positive" ELSE "false_negative"
        /\ pattern.confidence_multiplier = IF down THEN 70 ELSE 120
        /\ pattern.pattern_id \notin DOMAIN learn_call.before
        /\ DOMAIN learning_patterns = DOMAIN learn_call.before \cup {pattern.pattern_id}
        /\ learning_patterns[pattern.pattern_id] = pattern
        /\ \A id \in DOMAIN learn_call.before : learning_patterns[id] = learn_call.before[id]
        /\ IF down THEN after < before ELSE after > before

\* ---------------------------------------------------------------- C28
LookupKeys == {c \o "_" \o p : <<c, p>> \in Categories \X Priorities}

RatioStats == {[total_feedback |-> 10, positive_ratio |-> r] : r \in {0, ConfOne \div 2, ConfOne}}

Distance(a, b) == IF a >= b THEN a - b ELSE b - a

C30_AllOrNothing ==
  (LastCallWas({"analyze_feedback_patterns"}) /\ learn_call.failed) =>
    (learn_call.out = <<>> /\ learning_patterns = learn_call.before)


\* ---------------------------------------------------------------- C27
\* C27: collect_feedback returns True exactly when both the graph store write
\* and the ledger write succeeded, and False when storing failed.
C27_TrueOnlyWhenStored ==
  \A s \in DOMAIN collectors :
    collectors[s].state = "done" =>
      (collectors[s].returned <=> (collectors[s].graph_stored /\ collectors[s].ledger_stored))

\* ---------------------------------------------------------------- C29
\* C29: every stats record read has positive_count + negative_count +
\* neutral_count + correction_count <= total_feedback and a positive_ratio in
\* [0, 1], however the collect_feedback calls and the reads interleave.
C29_StatsConsistent ==
  DOMAIN stats_read # {} =>
    /\ stats_read.positive_count + stats_read.negative_count + stats_read.neutral_count
         + stats_read.correction_count <= stats_read.total_feedback
    /\ 0 <= stats_read.positive_ratio
    /\ stats_read.positive_ratio <= ConfOne


\* ---------------------------------------------------------------- C26
\* C26: store_pr_data, find_similar_prs, find_bug_patterns and
\* get_team_patterns never raise, whatever the graph store, the vector store
\* and the embedder do: store_pr_data returns, the two finders return a list,
\* and get_team_patterns returns a mapping with the keys preferred_patterns,
\* anti_patterns and recent_refactors.
IsList(value) == DOMAIN value = 1..Len(value)

TeamPatternKeys == {"preferred_patterns", "anti_patterns", "recent_refactors"}

C26_HistoryNeverRaises ==
  DOMAIN hist # {} =>
    /\ ~hist.out.raised
    /\ hist.method \in {"find_similar_prs", "find_bug_patterns"} => IsList(hist.out.value)
    /\ hist.method = "get_team_patterns" => TeamPatternKeys \subseteq DOMAIN hist.out.value

\* find_similar_prs returned the GitHub fallback although two collaborators raised
C26_Witness ==
  /\ DOMAIN hist # {}
  /\ hist.method = "find_similar_prs"
  /\ hist.neo4j.raised
  /\ hist.embedder.raised
  /\ hist.has_github
  /\ ~hist.out.raised
  /\ Len(hist.out.value) = 2


====
